---------------------------- MODULE Spec2Model ----------------------------
(***************************************************************************)
(* Verification model of arkGachaSimulator: the pity trial function        *)
(* (simulation-worker.js / gachaSimulator.ts), the worker-pool scheduler   *)
(* and the batched (GPU) path of SimulationWorkerManager                   *)
(* (src/utils/workerManager.ts), and the bucket aggregator.                *)
(*                                                                         *)
(* Three specifications share the module:                                  *)
(*   SpecGatcha  - gatcha(basePity) executed one loop iteration at a time  *)
(*   Spec        - SimulationWorkerManager: runs, workers, replies, GPU    *)
(*   SpecAgg     - folding trial outcomes into a bucket and deriving the   *)
(*                 statistics from it                                      *)
(***************************************************************************)
EXTENDS Integers, Sequences, FiniteSets, TLC

VARIABLES
    \* ---- gatcha(basePity), one call ----
    g_pc,          \* "loop1" | "loop2" | "done"
    basePity,      \* the argument
    xunfang,       \* local: pity position
    currentProb,   \* local: hit threshold in percent
    attempts,      \* number of Math.random() draws made so far in this call
    ret,           \* the returned value (NoRet until the call returns)
    \* ---- SimulationWorkerManager ----
    workers,           \* this.workers: the ids of the pool's workers ({} = released)
    availableWorkers,  \* this.availableWorkers: a Set, kept in insertion order
    activeTasks,       \* this.activeTasks: taskId -> task record
    inbox,             \* per worker: the tasks posted to it and not yet run
    replies,           \* messages posted by workers, not yet handled
    isGPUEnabled,      \* this.isGPUEnabled
    isGPUAvailable,    \* this.isGPUAvailable
    gpuInitialized,    \* gpuManager.isInitialized (isAvailable())
    gpuInitPc,         \* position of the async initializeGPU(): "check"|"init"|"done"
    gpuRuns,           \* runId -> locals of a runGPUSimulation() in its loop
    request,           \* runId -> arguments of the runSimulation() call
    promise,           \* runId -> state of the promise runSimulation() returned
    trace,             \* runId -> history of the run (what was dispatched, folded)
    \* ---- the aggregator, on its own ----
    outcomes,          \* the trial outcomes of a run, in submission order
    order,             \* a completion order: a permutation of their indices
    folded,            \* how many completions have been handled
    taskA,             \* bucket and counters folded in submission order
    taskB,             \* bucket and counters folded in completion order
    derived,           \* the statistics derived when all are folded
    \* ---- one trial (chouShuTongJi), on its own ----
    trial,             \* configuration, locals and position of the trial
    \* ---- the batched path (runGPUSimulation), on its own ----
    batch,             \* arguments, locals and position of the batched run
    \* ---- one category selection, on both paths ----
    choice,            \* weights, random fraction and the two selections
    \* ---- calculateStatisticalData on its own ----
    statCall,  \* the bucket handed to calculateStatisticalData and what it returned
    \* ---- the GPU status listeners (onGPUStatusChange) ----
    listeners   \* gpuStatusCallbacks, what each callback received, the caller's calls

gatchaVars == <<g_pc, basePity, xunfang, currentProb, attempts, ret>>

poolVars == <<workers, availableWorkers, activeTasks, inbox, replies>>

gpuVars == <<isGPUEnabled, isGPUAvailable, gpuInitialized, gpuInitPc>>

runVars == <<gpuRuns, request, promise, trace>>

managerVars == <<poolVars, gpuVars, runVars>>

aggVars == <<outcomes, order, folded, taskA, taskB, derived>>

trialVars == <<trial>>

batchVars == <<batch>>

choiceVars == <<choice>>

statsVars == <<statCall>>

listenersVars == <<listeners>>

vars == <<gatchaVars, managerVars, aggVars, trialVars, batchVars, choiceVars, statsVars, listenersVars>>

\* what the steps of one part leave alone
notGatchaVars == <<managerVars, aggVars, trialVars, batchVars, choiceVars, statsVars, listenersVars>>
notManagerVars == <<gatchaVars, aggVars, trialVars, batchVars, choiceVars, statsVars, listenersVars>>
notAggVars == <<gatchaVars, managerVars, trialVars, batchVars, choiceVars, statsVars, listenersVars>>
notTrialVars == <<gatchaVars, managerVars, aggVars, batchVars, choiceVars, statsVars, listenersVars>>
notBatchVars == <<gatchaVars, managerVars, aggVars, trialVars, choiceVars, statsVars, listenersVars>>
notChoiceVars == <<gatchaVars, managerVars, aggVars, trialVars, batchVars, statsVars, listenersVars>>
notStatsVars == <<gatchaVars, managerVars, aggVars, trialVars, batchVars, choiceVars, listenersVars>>
notListenersVars == <<gatchaVars, managerVars, aggVars, trialVars, batchVars, choiceVars, statsVars>>

(***************************************************************************)
(* Program constants of gatcha                                             *)
(***************************************************************************)
MaxPity == 100
SoftPityStart == 50
BaseProb == 2
ProbStep == 2
RandMax == 100

NoRet == -1

(***************************************************************************)
(* gatcha(basePity): src/unnamed/part_000 lines 11-31                      *)
(***************************************************************************)
\* let xunfang = basePity; let currentProb = basePity < 50 ? 2 : 2 + (basePity - 50) * 2
InitialProb(b) == IF b < SoftPityStart THEN BaseProb ELSE BaseProb + (b - SoftPityStart) * 2

InitGatcha ==
    /\ basePity \in 0 .. (MaxPity - 1)
    /\ xunfang = basePity
    /\ currentProb = InitialProb(basePity)
    /\ g_pc = "loop1"
    /\ attempts = 0
    /\ ret = NoRet

\* one iteration of `while (xunfang < 50)` with the random integer chuhuo
GatchaLoop1(chuhuo) ==
    /\ g_pc = "loop1"
    /\ xunfang < SoftPityStart
    /\ attempts' = attempts + 1
    /\ xunfang' = xunfang + 1
    /\ IF chuhuo <= currentProb
         THEN /\ ret' = xunfang' - basePity
              /\ g_pc' = "done"
         ELSE /\ ret' = ret
              /\ g_pc' = "loop1"
    /\ UNCHANGED <<basePity, currentProb>>

\* the first loop's condition is false: fall through to `while (true)`
GatchaLoop1Exit ==
    /\ g_pc = "loop1"
    /\ ~(xunfang < SoftPityStart)
    /\ g_pc' = "loop2"
    /\ UNCHANGED <<basePity, xunfang, currentProb, attempts, ret>>

\* one iteration of `while (true)` with the random integer chuhuo
GatchaLoop2(chuhuo) ==
    /\ g_pc = "loop2"
    /\ currentProb' = currentProb + ProbStep
    /\ attempts' = attempts + 1
    /\ IF chuhuo <= currentProb'
         THEN /\ ret' = xunfang - basePity
              /\ xunfang' = xunfang
              /\ g_pc' = "done"
         ELSE /\ ret' = ret
              /\ xunfang' = xunfang + 1
              /\ g_pc' = "loop2"
    /\ UNCHANGED basePity

NextGatcha ==
    \/ /\ \E chuhuo \in 1 .. RandMax : GatchaLoop1(chuhuo)
       /\ UNCHANGED notGatchaVars
    \/ /\ GatchaLoop1Exit
       /\ UNCHANGED notGatchaVars
    \/ /\ \E chuhuo \in 1 .. RandMax : GatchaLoop2(chuhuo)
       /\ UNCHANGED notGatchaVars

(***************************************************************************)
(* The values gatcha(basePity) can return, over all random sequences. The  *)
(* k-th iteration of a loop is reached when every earlier iteration can    *)
(* miss (chuhuo > currentProb for some chuhuo in 1..100) and returns when  *)
(* it can hit (chuhuo <= currentProb for some chuhuo).                     *)
(***************************************************************************)
\* iterations of `while (xunfang < 50)` when none hits
Loop1Iterations(b) == IF b < SoftPityStart THEN SoftPityStart - b ELSE 0

\* k-th iteration: xunfang = b + k after `xunfang += 1`, currentProb unchanged
GatchaLoop1Returns(b) ==
    { (b + k) - b : k \in { i \in 1 .. Loop1Iterations(b) :
                              /\ InitialProb(b) >= 1
                              /\ (i > 1 => InitialProb(b) < RandMax) } }

\* k-th iteration of `while (true)`: currentProb = initial + 2k, xunfang has been
\* incremented k - 1 times since the first loop ended
GatchaLoop2Returns(b) ==
    LET x0 == b + Loop1Iterations(b)
        entered == Loop1Iterations(b) = 0 \/ InitialProb(b) < RandMax
    IN  IF ~entered THEN {}
        ELSE { (x0 + k - 1) - b :
                 k \in { i \in 1 .. MaxPity :
                           /\ InitialProb(b) + i * ProbStep >= 1
                           \* every earlier iteration can miss; currentProb only
                           \* grows, so the one just before decides
                           /\ (i > 1 =>
                                 InitialProb(b) + (i - 1) * ProbStep < RandMax) } }

GatchaReturns(b) == GatchaLoop1Returns(b) \cup GatchaLoop2Returns(b)

(***************************************************************************)
(* Bounds of the manager model                                             *)
(***************************************************************************)
WorkerCount == 2      \* navigator.hardwareConcurrency of the modelled machine
MaxRuns == 2          \* runSimulation() calls in one behaviour
MaxSims == 2          \* largest totalSimulations requested
MaxDraw == 2          \* largest per-cycle draw count the random source yields
MaxCycles == 2        \* most reward cycles of one trial the random source yields
BatchLanes == 2       \* lanes of one batched dispatch (targetBatchSize)
MaxBatches == 2       \* dispatches of one batched run that return results

Workers == 1 .. WorkerCount
RunIds == 1 .. MaxRuns
EmptyFn == << >>                      \* {} : an object without keys

\* f with f[k] = v (obj[k] = v)
PutKey(f, k, v) == (k :> v) @@ f

\* f without the key k (delete obj[k], map.delete(k))
RECURSIVE Restrict(_, _)
Restrict(f, keys) ==
    IF keys = {} THEN EmptyFn
    ELSE LET k == CHOOSE x \in keys : TRUE
         IN  (k :> f[k]) @@ Restrict(f, keys \ {k})

RemoveKey(f, k) == Restrict(f, (DOMAIN f) \ {k})

\* the object with value v under every key
RECURSIVE ConstFn(_, _)
ConstFn(keys, v) ==
    IF keys = {} THEN EmptyFn
    ELSE LET k == CHOOSE x \in keys : TRUE
         IN  (k :> v) @@ ConstFn(keys \ {k}, v)

\* Array.from({ length: n }, (_, i) => i)
RECURSIVE Indices(_)
Indices(n) == IF n = 0 THEN << >> ELSE Append(Indices(n - 1), n - 1)
EmptyConfigError == "EmptyConfig"     \* '干员配置不能为空'

(***************************************************************************)
(* Configurations a caller passes: a list of {name, weight, target} in the *)
(* key order of the operatorConfig object.                                 *)
(***************************************************************************)
Op(n, w, t) == [name |-> n, weight |-> w, target |-> t]

ConfigInputs ==
    { << >>,
      << Op("A", 1, 0) >>,
      << Op("B", 2, 1), Op("A", 1, 1) >> }

ConfigNames(cfg) == { cfg[i].name : i \in DOMAIN cfg }

\* runSimulation lines 595-602: Object.entries(operatorConfig).sort by weight
\* ascending (Array.prototype.sort is stable), then Object.fromEntries
RECURSIVE InsertByWeight(_, _)
InsertByWeight(sorted, e) ==
    IF sorted = << >> THEN << e >>
    ELSE IF e.weight - sorted[Len(sorted)].weight >= 0
           THEN Append(sorted, e)
           ELSE Append(InsertByWeight(SubSeq(sorted, 1, Len(sorted) - 1), e),
                       sorted[Len(sorted)])

RECURSIVE SortByWeight(_)
SortByWeight(cfg) ==
    IF cfg = << >> THEN << >>
    ELSE InsertByWeight(SortByWeight(SubSeq(cfg, 1, Len(cfg) - 1)), cfg[Len(cfg)])

(***************************************************************************)
(* The worker: weightedChoice and chouShuTongJi (src/unnamed/part_000)     *)
(***************************************************************************)
SumWeights(cfg) ==
    LET RECURSIVE S(_)
        S(i) == IF i = 0 THEN 0 ELSE S(i - 1) + cfg[i].weight
    IN  S(Len(cfg))

\* weightedChoice with random = r2 / 2 (Math.random() * totalWeight, taken on a
\* half-unit grid so that both boundary and interior values occur)
RECURSIVE WeightedWalk(_, _, _)
WeightedWalk(cfg, i, rem2) ==
    IF i > Len(cfg) THEN cfg[Len(cfg)].name
    ELSE LET r == rem2 - 2 * cfg[i].weight
         IN  IF r <= 0 THEN cfg[i].name ELSE WeightedWalk(cfg, i + 1, r)

WeightedChoice(cfg, r2) == WeightedWalk(cfg, 1, r2)

WeightedChoices(cfg) ==
    { WeightedChoice(cfg, r2) : r2 \in 0 .. (2 * SumWeights(cfg) - 1) }

\* checkCompletion, lines 78-82
CheckCompletion(cfg, statistic) ==
    \A i \in DOMAIN cfg :
        cfg[i].target = 0 \/ statistic[cfg[i].name] >= cfg[i].target

\* statistic[selectedOperator] += 1
Increment(statistic, selectedOperator) ==
    PutKey(statistic, selectedOperator, statistic[selectedOperator] + 1)

\* the while loop of chouShuTongJi, lines 84-99: every {total, statistic} it can
\* end with when the random source yields at most `fuel` further reward cycles
\* and per-cycle draw counts of at most MaxDraw
RECURSIVE TrialLoop(_, _, _, _, _)
TrialLoop(cfg, total, currentPity, statistic, fuel) ==
    IF CheckCompletion(cfg, statistic)
      THEN { [total |-> total, statistic |-> statistic] }
    ELSE IF fuel = 0 THEN {}
    ELSE UNION { TrialLoop(cfg, total + drawsThisRound, 0,
                           Increment(statistic, selectedOperator),
                           fuel - 1) :
                   drawsThisRound \in { d \in GatchaReturns(currentPity) : d <= MaxDraw },
                   selectedOperator \in WeightedChoices(cfg) }

\* chouShuTongJi(operatorConfig, basePity) for a non-empty configuration
ChouShuTongJi(cfg, pity) ==
    TrialLoop(cfg, 0, pity, ConstFn(ConfigNames(cfg), 0), MaxCycles)

(***************************************************************************)
(* Messages between the manager and its workers                            *)
(***************************************************************************)
WorkerTask(taskId, cfg, pity, workerId, simulationIndex) ==
    [taskId |-> taskId, operatorConfig |-> cfg, basePity |-> pity,
     workerId |-> workerId, simulationIndex |-> simulationIndex]

CompleteMsg(t, result) ==
    [type |-> "complete", taskId |-> t.taskId, workerId |-> t.workerId,
     simulationIndex |-> t.simulationIndex,
     totalDraws |-> result.total, characterCounts |-> result.statistic,
     error |-> ""]

ErrorMsg(t, err) ==
    [type |-> "error", taskId |-> t.taskId, workerId |-> t.workerId,
     simulationIndex |-> t.simulationIndex,
     totalDraws |-> 0, characterCounts |-> EmptyFn, error |-> err]

\* self.onmessage, lines 118-164: one task in, exactly one message out
WorkerRun(w) ==
    /\ w \in workers
    /\ inbox[w] # << >>
    /\ LET t == Head(inbox[w])
       IN  /\ inbox' = [inbox EXCEPT ![w] = Tail(@)]
           /\ IF t.operatorConfig = << >>
                THEN replies' = replies \cup {ErrorMsg(t, EmptyConfigError)}
                ELSE \E result \in ChouShuTongJi(t.operatorConfig, t.basePity) :
                        replies' = replies \cup {CompleteMsg(t, result)}
    /\ UNCHANGED <<workers, availableWorkers, activeTasks, gpuVars, runVars>>

(***************************************************************************)
(* Bucket and counters (workerManager.ts)                                  *)
(***************************************************************************)
RECURSIVE SumOver(_, _)
SumOver(f, keys) ==
    IF keys = {} THEN 0
    ELSE LET k == CHOOSE x \in keys : TRUE
         IN  f[k] + SumOver(f, keys \ {k})

BucketSum(bucket) == SumOver(bucket, DOMAIN bucket)
CountsSum(counts) == SumOver(counts, DOMAIN counts)

\* handleWorkerComplete lines 255-260:
\*   if (task.drawsBucket[draws]) task.drawsBucket[draws]++; else task.drawsBucket[draws] = 1
\* a fold that records the draw count without counting its occurrences
FoldDraws_Overwrite(bucket, draws) ==
    PutKey(bucket, draws, 1)

FoldDraws(bucket, draws) ==
    IF draws \in DOMAIN bucket /\ bucket[draws] # 0
      THEN PutKey(bucket, draws, bucket[draws] + 1)
      ELSE PutKey(bucket, draws, 1)

\* handleWorkerComplete lines 263-268
RECURSIVE FoldCountsOver(_, _, _)
FoldCountsOver(counts, resultCounts, chars) ==
    IF chars = {} THEN counts
    ELSE LET char == CHOOSE x \in chars : TRUE
             old == IF char \in DOMAIN counts THEN counts[char] ELSE 0
         IN  FoldCountsOver(PutKey(counts, char, old + resultCounts[char]),
                            resultCounts, chars \ {char})

\* a fold that assigns the trial's counters instead of adding them
FoldCounts_Assign(counts, resultCounts) ==
    resultCounts @@ counts

FoldCounts(counts, resultCounts) ==
    FoldCountsOver(counts, resultCounts, DOMAIN resultCounts)

\* the part of SimulationStatistics the manager's claims are about
Statistics(bucket, counts, total) ==
    [drawsBucket |-> bucket, characterCounts |-> counts, totalSimulations |-> total]

NoStatistics == Statistics(EmptyFn, EmptyFn, -1)

Pending == [state |-> "pending", statistics |-> NoStatistics, error |-> ""]
NotCalled == [state |-> "none", statistics |-> NoStatistics, error |-> ""]
Resolved(stats) == [state |-> "resolved", statistics |-> stats, error |-> ""]
Rejected(err) == [state |-> "rejected", statistics |-> NoStatistics, error |-> err]

NoRequest == [total |-> 0, config |-> << >>, basePity |-> 0]

\* history of a run, kept beside the program state to state the claims:
\*   path         "none" | "gpu" | "cpu": the path the run is on
\*   dispatched   a trial of the run was sent to a worker or a batch was dispatched
\*   dropped      pending trials the run still had when it was rejected
\*   fellBack     runGPUSimulation caught a failure and called runCPUSimulation
\*   gpuFolded    the batched path had folded an outcome when it failed
\*   workerFolds  worker outcomes folded into the run's bucket
\*   rewardEvents reward events of the trials counted in the run's bucket
\*   progress     the values handleWorkerComplete passed to the run's
\*                progressCallback, in the order of the calls
NoTrace ==
    [path |-> "none", dispatched |-> FALSE, dropped |-> 0, fellBack |-> FALSE, gpuFolded |-> FALSE,
     workerFolds |-> 0, rewardEvents |-> 0, progress |-> << >>]

(***************************************************************************)
(* The scheduler's methods, as functions of the manager state              *)
(*   S = [workers, availableWorkers, activeTasks, inbox, promise, trace]   *)
(***************************************************************************)
ManagerState ==
    [workers |-> workers, availableWorkers |-> availableWorkers,
     activeTasks |-> activeTasks, inbox |-> inbox, promise |-> promise,
     trace |-> trace]

SetAdd(seq, x) == IF \E i \in DOMAIN seq : seq[i] = x THEN seq ELSE Append(seq, x)

\* initializeWorkers, lines 124-135
InitializeWorkers(S) ==
    LET RECURSIVE AddAll(_, _)
        AddAll(av, i) == IF i > WorkerCount THEN av ELSE AddAll(SetAdd(av, i), i + 1)
    IN  [S EXCEPT !.workers = Workers,
                  !.availableWorkers = AddAll(S.availableWorkers, 1),
                  !.inbox = ConstFn(Workers, << >>)]

\* ensureWorkersInitialized, lines 576-581
\* a run that takes the pool as it finds it
EnsureWorkersInitialized_Skip(S) == S

EnsureWorkersInitialized(S) ==
    IF S.workers = {} THEN InitializeWorkers(S) ELSE S

\* assignNextSimulation, lines 306-337
\* a dispatch that leaves the chosen worker in the idle set
AssignNextSimulation_KeepIdle(S, taskId) ==
    IF taskId \notin DOMAIN S.activeTasks THEN S
    ELSE IF S.activeTasks[taskId].pendingSimulations = << >> THEN S
    ELSE IF S.availableWorkers = << >> THEN S
    ELSE LET task == S.activeTasks[taskId]
             simulationIndex == Head(task.pendingSimulations)
             workerId == Head(S.availableWorkers)
         IN  [S EXCEPT
                !.activeTasks[taskId].pendingSimulations = Tail(@),
                !.inbox[workerId] =
                    Append(@, WorkerTask(taskId, task.operatorConfig, task.basePity,
                                         workerId, simulationIndex)),
                !.trace[taskId].dispatched = TRUE]

\* a dispatch that leaves the dispatched id in the pending list
AssignNextSimulation_KeepPending(S, taskId) ==
    IF taskId \notin DOMAIN S.activeTasks THEN S
    ELSE IF S.activeTasks[taskId].pendingSimulations = << >> THEN S
    ELSE IF S.availableWorkers = << >> THEN S
    ELSE LET task == S.activeTasks[taskId]
             simulationIndex == Head(task.pendingSimulations)
             workerId == Head(S.availableWorkers)
         IN  [S EXCEPT
                !.availableWorkers = Tail(@),
                !.inbox[workerId] =
                    Append(@, WorkerTask(taskId, task.operatorConfig, task.basePity,
                                         workerId, simulationIndex)),
                !.trace[taskId].dispatched = TRUE]

AssignNextSimulation(S, taskId) ==
    IF taskId \notin DOMAIN S.activeTasks THEN S
    ELSE IF S.activeTasks[taskId].pendingSimulations = << >> THEN S
    ELSE IF S.availableWorkers = << >> THEN S
    ELSE LET task == S.activeTasks[taskId]
             simulationIndex == Head(task.pendingSimulations)
             workerId == Head(S.availableWorkers)
         IN  [S EXCEPT
                !.activeTasks[taskId].pendingSimulations = Tail(@),
                !.availableWorkers = Tail(@),
                !.inbox[workerId] =
                    Append(@, WorkerTask(taskId, task.operatorConfig, task.basePity,
                                         workerId, simulationIndex)),
                !.trace[taskId].dispatched = TRUE]

\* releaseWorkerPool, lines 776-799: every worker is terminated (the tasks it had
\* not begun are lost with it), the idle set and the active tasks are cleared
ReleaseWorkerPool(S) ==
    [S EXCEPT !.workers = {},
              !.availableWorkers = << >>,
              !.inbox = ConstFn(Workers, << >>),
              !.activeTasks = EmptyFn]

\* completeTask, lines 342-391
CompleteTask(S, taskId) ==
    IF taskId \notin DOMAIN S.activeTasks THEN S
    ELSE LET task == S.activeTasks[taskId]
             S1 == [S EXCEPT
                      !.promise[taskId] =
                          IF @.state = "pending"
                            THEN Resolved(Statistics(task.drawsBucket,
                                                     task.characterCounts,
                                                     task.totalSimulations))
                            ELSE @,
                      !.activeTasks = RemoveKey(@, taskId)]
         IN  IF DOMAIN S1.activeTasks = {} THEN ReleaseWorkerPool(S1) ELSE S1

\* handleWorkerComplete lines 276-279, for a run started with a progressCallback:
\*   progress = (task.completedSimulations / task.totalSimulations) * 100
\* kept as the exact fraction; the count is read after it was incremented
\* a report computed from the count before the increment
ProgressValue_BeforeFold(task) ==
    [num |-> (task.completedSimulations - 1) * 100, den |-> task.totalSimulations]

ProgressValue(task) ==
    [num |-> task.completedSimulations * 100, den |-> task.totalSimulations]

\* handleWorkerComplete, lines 239-289
HandleWorkerComplete(S, m) ==
    IF m.taskId \notin DOMAIN S.activeTasks THEN S
    ELSE LET S0 == [S EXCEPT
                      !.availableWorkers = SetAdd(@, m.workerId),
                      !.activeTasks[m.taskId].completedSimulations = @ + 1,
                      !.activeTasks[m.taskId].drawsBucket = FoldDraws(@, m.totalDraws),
                      !.activeTasks[m.taskId].characterCounts =
                          FoldCounts(@, m.characterCounts),
                      !.trace[m.taskId].workerFolds = @ + 1,
                      !.trace[m.taskId].rewardEvents = @ + CountsSum(m.characterCounts)]
             S1 == [S0 EXCEPT
                      !.trace[m.taskId].progress =
                          Append(@, ProgressValue(S0.activeTasks[m.taskId]))]
             S2 == AssignNextSimulation(S1, m.taskId)
             task == S2.activeTasks[m.taskId]
         IN  IF task.completedSimulations >= task.totalSimulations
               THEN CompleteTask(S2, m.taskId)
               ELSE S2

\* handleWorkerError, lines 292-301
\* an error handler that rejects the promise and leaves the run active
HandleWorkerError_KeepTask(S, m) ==
    IF m.taskId \in DOMAIN S.activeTasks
      THEN [S EXCEPT
              !.promise[m.taskId] = IF @.state = "pending" THEN Rejected(m.error) ELSE @]
      ELSE S

\* an error handler that drops every active run
HandleWorkerError_DropAll(S, m) ==
    IF m.taskId \in DOMAIN S.activeTasks
      THEN [S EXCEPT
              !.promise[m.taskId] = IF @.state = "pending" THEN Rejected(m.error) ELSE @,
              !.activeTasks = EmptyFn,
              !.trace[m.taskId].dropped =
                  Len(S.activeTasks[m.taskId].pendingSimulations)]
      ELSE S

HandleWorkerError(S, m) ==
    IF m.taskId \in DOMAIN S.activeTasks
      THEN [S EXCEPT
              !.promise[m.taskId] = IF @.state = "pending" THEN Rejected(m.error) ELSE @,
              !.activeTasks = RemoveKey(@, m.taskId),
              !.trace[m.taskId].dropped =
                  Len(S.activeTasks[m.taskId].pendingSimulations)]
      ELSE S

\* runCPUSimulation, lines 733-771, for the run with promise `taskId`
RunCPUSimulation(S, taskId, totalSimulations, operatorConfig, pity) ==
    LET S1 == EnsureWorkersInitialized(S)
        task == [totalSimulations |-> totalSimulations,
                 completedSimulations |-> 0,
                 pendingSimulations |-> Indices(totalSimulations),
                 operatorConfig |-> operatorConfig,
                 basePity |-> pity,
                 drawsBucket |-> EmptyFn,
                 characterCounts |-> EmptyFn]
        S2 == [S1 EXCEPT !.activeTasks = PutKey(@, taskId, task),
                         !.trace[taskId].path = "cpu",
                         !.trace[taskId].workerFolds = 0,
                         !.trace[taskId].rewardEvents = 0,
                         !.trace[taskId].progress = << >>]
        Min(a, b) == IF a <= b THEN a ELSE b
        initialAssignments == Min(Len(S2.availableWorkers), totalSimulations)
        RECURSIVE Assign(_, _)
        Assign(St, i) ==
            IF i >= initialAssignments THEN St
            ELSE Assign(AssignNextSimulation(St, taskId), i + 1)
    IN  Assign(S2, 0)

\* the manager state after a method ran
Becomes(S) ==
    /\ workers' = S.workers
    /\ availableWorkers' = S.availableWorkers
    /\ activeTasks' = S.activeTasks
    /\ inbox' = S.inbox
    /\ promise' = S.promise
    /\ trace' = S.trace

\* handleWorkerMessage, lines 223-234
HandleWorkerMessage(m) ==
    /\ m \in replies
    /\ replies' = replies \ {m}
    /\ Becomes(IF m.type = "complete"
                 THEN HandleWorkerComplete(ManagerState, m)
                 ELSE HandleWorkerError(ManagerState, m))
    /\ UNCHANGED <<gpuVars, gpuRuns, request>>

(***************************************************************************)
(* The batched path: runGPUSimulation, lines 618-728                       *)
(***************************************************************************)
\* what GPUManager.runSimulation can return for one dispatch (part_003 lines
\* 1262-1318): one {name, draws} per lane that decoded, draws = basePity +
\* drawIdx + 1, at most BatchLanes of them; no lane decodes without operators
LaneResults(cfg, pity) ==
    { [name |-> n, draws |-> d] :
        n \in ConfigNames(cfg),
        d \in { x \in (pity + 1) .. MaxPity : x <= pity + MaxDraw } }

RECURSIVE SeqsUpTo(_, _)
SeqsUpTo(S, n) ==
    IF n = 0 THEN { << >> }
    ELSE LET shorter == SeqsUpTo(S, n - 1)
         IN  shorter \cup { Append(q, x) : q \in { t \in shorter : Len(t) = n - 1 }, x \in S }

BatchResults(cfg, pity) == SeqsUpTo(LaneResults(cfg, pity), BatchLanes)

\* the `for (;;)` loop of lines 664-698 for one trial: results.pop() until every
\* operator reached its target. D = [currentSim, drawsBucket, characterCounts,
\* rewardEvents]; returns <<results left, D>>
RECURSIVE DecodeTrial(_, _, _, _, _, _)
DecodeTrial(results, operator, totalDraws, events, D, run) ==
    IF results = << >> THEN << results, D >>          \* if (!result) break
    ELSE LET result == results[Len(results)]
             rest == SubSeq(results, 1, Len(results) - 1)
             known == result.name \in DOMAIN operator
             operator1 == IF known THEN PutKey(operator, result.name,
                                                       operator[result.name] + 1)
                                   ELSE operator
             totalDraws1 == IF known THEN totalDraws + result.draws ELSE totalDraws
             events1 == IF known THEN events + 1 ELSE events
             D1 == IF known
                     THEN [D EXCEPT !.characterCounts =
                             PutKey(@, result.name,
                                    (IF result.name \in DOMAIN @ THEN @[result.name] ELSE 0) + 1)]
                     ELSE D
             cfg == run.operatorConfig
         IN  IF \A i \in DOMAIN cfg : operator1[cfg[i].name] >= cfg[i].target
               THEN LET D2 == [D1 EXCEPT
                                 !.drawsBucket =
                                     PutKey(@, totalDraws1,
                                            (IF totalDraws1 \in DOMAIN @ THEN @[totalDraws1] ELSE 0) + 1),
                                 !.currentSim = @ + 1,
                                 !.rewardEvents = @ + events1]
                    IN  << IF D2.currentSim >= run.totalSimulations THEN << >> ELSE rest, D2 >>
               ELSE DecodeTrial(rest, operator1, totalDraws1, events1, D1, run)

\* the `while (results && results.length > 0)` loop of lines 655-699
RECURSIVE DecodeResults(_, _, _)
DecodeResults(results, D, run) ==
    IF results = << >> THEN D
    ELSE LET operator == ConstFn(ConfigNames(run.operatorConfig), 0)
             after == DecodeTrial(results, operator, 0, 0, D, run)
         IN  DecodeResults(after[1], after[2], run)

\* runGPUSimulation up to its first await
StartGPUSimulation(r, totalSimulations, operatorConfig, pity) ==
    /\ gpuRuns' = PutKey(gpuRuns, r,
                         [totalSimulations |-> totalSimulations,
                          operatorConfig |-> operatorConfig,
                          basePity |-> pity,
                          currentSim |-> 0,
                          batches |-> 0,
                          drawsBucket |-> EmptyFn,
                          characterCounts |-> EmptyFn])
    /\ trace' = [trace EXCEPT ![r].path = "gpu"]
    /\ promise' = [promise EXCEPT ![r] = Pending]
    /\ UNCHANGED <<workers, availableWorkers, activeTasks, inbox>>

\* one `await this.gpuManager.runSimulation(...)` returns `results`, which are
\* decoded; when currentSim reaches totalSimulations the statistics are returned
GPUBatch(r, results) ==
    /\ r \in DOMAIN gpuRuns
    /\ gpuRuns[r].batches < MaxBatches
    /\ LET run == gpuRuns[r]
           D == DecodeResults(results,
                              [currentSim |-> run.currentSim,
                               drawsBucket |-> run.drawsBucket,
                               characterCounts |-> run.characterCounts,
                               rewardEvents |-> trace[r].rewardEvents],
                              run)
       IN  /\ trace' = [trace EXCEPT ![r].dispatched = TRUE,
                                     ![r].rewardEvents = D.rewardEvents]
           /\ IF D.currentSim < run.totalSimulations
                THEN /\ gpuRuns' = [gpuRuns EXCEPT
                                      ![r].currentSim = D.currentSim,
                                      ![r].batches = @ + 1,
                                      ![r].drawsBucket = D.drawsBucket,
                                      ![r].characterCounts = D.characterCounts]
                     /\ UNCHANGED promise
                ELSE /\ gpuRuns' = RemoveKey(gpuRuns, r)
                     /\ promise' = [promise EXCEPT ![r] =
                                      Resolved(Statistics(D.drawsBucket, D.characterCounts,
                                                          run.totalSimulations))]
    /\ UNCHANGED <<workers, availableWorkers, activeTasks, inbox, replies, gpuVars, request>>

\* `await this.gpuManager.runSimulation(...)` throws: the catch block of lines
\* 723-727 calls runCPUSimulation with the run's arguments
GPUDispatchFails(r) ==
    /\ r \in DOMAIN gpuRuns
    /\ LET run == gpuRuns[r]
           S == [ManagerState EXCEPT
                   !.trace[r].dispatched = TRUE,
                   !.trace[r].fellBack = TRUE,
                   !.trace[r].gpuFolded = (run.currentSim > 0)]
       IN  Becomes(RunCPUSimulation(S, r, run.totalSimulations, run.operatorConfig,
                                    run.basePity))
    /\ gpuRuns' = RemoveKey(gpuRuns, r)
    /\ UNCHANGED <<replies, gpuVars, request>>

(***************************************************************************)
(* runSimulation, lines 586-613                                            *)
(***************************************************************************)
RunBasePities == {0}

RunSimulation(totalSimulations, operatorConfig, pity) ==
    /\ \E r \in RunIds : promise[r].state = "none"
    /\ LET r == CHOOSE x \in RunIds :
                    promise[x].state = "none" /\ \A y \in 1 .. (x - 1) : promise[y].state # "none"
           sorted == SortByWeight(operatorConfig)
       IN  /\ request' = [request EXCEPT ![r] =
                            [total |-> totalSimulations, config |-> operatorConfig,
                             basePity |-> pity]]
           /\ IF isGPUEnabled /\ gpuInitialized
                THEN StartGPUSimulation(r, totalSimulations, sorted, pity)
                ELSE /\ Becomes(RunCPUSimulation(
                                  [ManagerState EXCEPT !.promise[r] = Pending],
                                  r, totalSimulations, sorted, pity))
                     /\ UNCHANGED gpuRuns
    /\ UNCHANGED <<replies, gpuVars>>

(***************************************************************************)
(* GPU capability: initializeGPU (lines 140-165), setGPUEnabled (202-208)  *)
(***************************************************************************)
\* `await this.gpuManager.checkGPUSupport()` settles
InitializeGPUCheck(supported) ==
    /\ gpuInitPc = "check"
    /\ IF supported
         THEN /\ gpuInitPc' = "init"
              /\ UNCHANGED <<isGPUEnabled, isGPUAvailable, gpuInitialized>>
         ELSE /\ gpuInitPc' = "done"
              /\ isGPUAvailable' = FALSE
              /\ isGPUEnabled' = FALSE
              /\ UNCHANGED gpuInitialized
    /\ UNCHANGED <<poolVars, runVars>>

\* `await this.gpuManager.initialize()` settles with `ok`
InitializeGPUInit(ok) ==
    /\ gpuInitPc = "init"
    /\ gpuInitPc' = "done"
    /\ gpuInitialized' = ok
    /\ isGPUAvailable' = ok
    /\ isGPUEnabled' = IF ok THEN TRUE ELSE isGPUEnabled
    /\ UNCHANGED <<poolVars, runVars>>

\* a switch that stores the caller's choice without looking at availability
SetGPUEnabled_Unchecked(enabled) ==
    /\ isGPUEnabled' = enabled
    /\ UNCHANGED <<isGPUAvailable, gpuInitialized, gpuInitPc, poolVars, runVars>>

\* getGPUAvailability, lines 213-218
GetGPUAvailability == [available |-> isGPUAvailable, enabled |-> isGPUEnabled]

SetGPUEnabled(enabled) ==
    /\ isGPUEnabled' = (enabled /\ isGPUAvailable)
    /\ UNCHANGED <<isGPUAvailable, gpuInitialized, gpuInitPc, poolVars, runVars>>

(***************************************************************************)
(* The aggregator: calculateCumulativeProbability (lines 396-408) and      *)
(* calculateStatisticalData (lines 493-537). Non-integer numbers are kept  *)
(* as exact fractions num/den.                                             *)
(***************************************************************************)
Frac(n, d) == [num |-> n, den |-> d]
Whole(n) == Frac(n, 1)
NumEq(a, b) == a.num * b.den = b.num * a.den      \* a === b
NumLeq(a, b) == a.num * b.den <= b.num * a.den    \* a <= b, for den > 0

\* Object.keys(drawsBucket).map(Number).sort((a, b) => a - b)
RECURSIVE SortNumeric(_)
SortNumeric(keys) ==
    IF keys = {} THEN << >>
    ELSE LET least == CHOOSE x \in keys : \A y \in keys : x - y <= 0
         IN  << least >> \o SortNumeric(keys \ {least})

\* Object.entries(drawsBucket).map(...).sort((a, b) => a.draws - b.draws)
BucketEntries(bucket) ==
    LET sortedDraws == SortNumeric(DOMAIN bucket)
    IN  [i \in DOMAIN sortedDraws |->
            [draws |-> sortedDraws[i], count |-> bucket[sortedDraws[i]]]]

\* calculateCumulativeProbability: probability = (cumulativeCount / total) * 100
RECURSIVE CumulativeWalk(_, _, _, _, _)
CumulativeWalk(bucket, sortedDraws, i, cumulativeCount, totalSimulations) ==
    IF i > Len(sortedDraws) THEN << >>
    ELSE LET draws == sortedDraws[i]
             count == cumulativeCount + bucket[draws]
         IN  << [draws |-> draws, probability |-> Frac(count * 100, totalSimulations)] >>
             \o CumulativeWalk(bucket, sortedDraws, i + 1, count, totalSimulations)

\* the curve walked over the draw values sorted by (a, b) => b - a
CalculateCumulativeProbability_Descending(bucket, totalSimulations) ==
    LET sortedDraws == SortNumeric(DOMAIN bucket)
        n == Len(sortedDraws)
    IN  CumulativeWalk(bucket, [i \in 1 .. n |-> sortedDraws[n + 1 - i]], 1, 0,
                       totalSimulations)

CalculateCumulativeProbability(bucket, totalSimulations) ==
    CumulativeWalk(bucket, SortNumeric(DOMAIN bucket), 1, 0, totalSimulations)

\* the median loop, lines 505-514
RECURSIVE MedianWalk(_, _, _, _, _)
MedianWalk(entries, i, currentCount, medianIndex, median) ==
    IF i > Len(entries) THEN median
    ELSE LET count == currentCount + entries[i].count
         IN  IF count >= medianIndex THEN Whole(entries[i].draws)
             ELSE MedianWalk(entries, i + 1, count, medianIndex, median)

\* the quartile loop, lines 517-531; returns <<p25, p75>>
RECURSIVE QuartileWalk(_, _, _, _, _, _, _, _)
QuartileWalk(entries, i, currentCount, p25Index, p75Index, mean, p25, p75) ==
    IF i > Len(entries) THEN << p25, p75 >>
    ELSE LET count == currentCount + entries[i].count
             p25a == IF NumEq(p25, mean) /\ count >= p25Index
                       THEN Whole(entries[i].draws) ELSE p25
         IN  IF count >= p75Index THEN << p25a, Whole(entries[i].draws) >>
             ELSE QuartileWalk(entries, i + 1, count, p25Index, p75Index, mean, p25a, p75)

\* entries.reduce((sum, item) => sum + ..., 0), over the terms from the i-th on
RECURSIVE SumEntries(_, _)
SumEntries(terms, i) ==
    IF i > Len(terms) THEN 0 ELSE terms[i] + SumEntries(terms, i + 1)

\* calculateStatisticalData for a non-empty bucket: mean, median, p25, p75 and
\* the variance (sigma is its square root)
CalculateStatisticalData(bucket) ==
    LET entries == BucketEntries(bucket)
        totalCount == SumEntries([i \in DOMAIN entries |-> entries[i].count], 1)
        weightedSum ==
            SumEntries([i \in DOMAIN entries |-> entries[i].draws * entries[i].count], 1)
        mean == Frac(weightedSum, totalCount)
        median == MedianWalk(entries, 1, 0, totalCount \div 2, mean)
        quartiles == QuartileWalk(entries, 1, 0, totalCount \div 4,
                                  (3 * totalCount) \div 4, mean, mean, mean)
        \* count * (draws - mean)^2, over the common denominator totalCount^2
        Squared(e) == e.count * (e.draws * totalCount - weightedSum)
                              * (e.draws * totalCount - weightedSum)
        variance == Frac(SumEntries([i \in DOMAIN entries |-> Squared(entries[i])], 1),
                         totalCount * totalCount * totalCount)
    IN  [mean |-> mean, median |-> median, p25 |-> quartiles[1],
         p75 |-> quartiles[2], variance |-> variance]

(***************************************************************************)
(* IEEE 754 double arithmetic, as far as calculateHistogramData uses it:   *)
(* non-negative values, round to nearest, ties to even. A double is        *)
(* [m, e] with the value m * 2^e, m a natural number of at most            *)
(* DoubleBits bits, held as its limbs in base Limb, least significant      *)
(* first and without leading zero limbs.                                   *)
(***************************************************************************)
LimbBits == 12
Limb == 4096            \* 2^LimbBits
DoubleBits == 53        \* significand bits of a double
QuotientShift == 64     \* bits of a quotient computed before it is rounded

RECURSIVE BigNorm(_)
BigNorm(a) ==
    IF a = << >> THEN << >>
    ELSE IF a[Len(a)] = 0 THEN BigNorm(SubSeq(a, 1, Len(a) - 1)) ELSE a

RECURSIVE BigFromInt(_)
BigFromInt(n) ==
    IF n = 0 THEN << >> ELSE << n % Limb >> \o BigFromInt(n \div Limb)

RECURSIVE BigToInt(_)
BigToInt(a) ==
    IF a = << >> THEN 0 ELSE a[1] + Limb * BigToInt(Tail(a))

RECURSIVE BigAddFrom(_, _, _, _)
BigAddFrom(a, b, i, carry) ==
    IF i > Len(a) /\ i > Len(b)
      THEN BigFromInt(carry)
      ELSE LET t == (IF i <= Len(a) THEN a[i] ELSE 0)
                    + (IF i <= Len(b) THEN b[i] ELSE 0) + carry
           IN  << t % Limb >> \o BigAddFrom(a, b, i + 1, t \div Limb)

BigAdd(a, b) == BigNorm(BigAddFrom(a, b, 1, 0))

\* a * k for a natural number k < 2^18
RECURSIVE BigMulFrom(_, _, _, _)
BigMulFrom(a, k, i, carry) ==
    IF i > Len(a)
      THEN BigFromInt(carry)
      ELSE LET t == a[i] * k + carry
           IN  << t % Limb >> \o BigMulFrom(a, k, i + 1, t \div Limb)

BigMulSmall(a, k) == BigNorm(BigMulFrom(a, k, 1, 0))

\* quotient (limbs 1..i) and remainder of a by k, 0 < k < 2^18, from limb i down
RECURSIVE BigDivFrom(_, _, _, _)
BigDivFrom(a, k, i, r) ==
    IF i = 0
      THEN [q |-> << >>, r |-> r]
      ELSE LET cur == r * Limb + a[i]
               low == BigDivFrom(a, k, i - 1, cur % k)
           IN  [q |-> Append(low.q, cur \div k), r |-> low.r]

BigDivSmall(a, k) ==
    LET d == BigDivFrom(a, k, Len(a), 0)
    IN  [q |-> BigNorm(d.q), r |-> d.r]

\* a * 2^s
BigShl(a, s) ==
    IF a = << >> THEN << >>
    ELSE [i \in 1 .. (s \div LimbBits) |-> 0] \o BigMulSmall(a, 2 ^ (s % LimbBits))

\* floor(a / 2^s)
BigShr(a, s) ==
    IF s \div LimbBits >= Len(a) THEN << >>
    ELSE BigDivSmall(SubSeq(a, (s \div LimbBits) + 1, Len(a)), 2 ^ (s % LimbBits)).q

BigIsOdd(a) == a # << >> /\ a[1] % 2 = 1

BigBitLength(a) ==
    IF a = << >> THEN 0
    ELSE LimbBits * (Len(a) - 1)
         + (CHOOSE k \in 1 .. LimbBits : 2 ^ (k - 1) <= a[Len(a)] /\ a[Len(a)] < 2 ^ k)

BigLess(a, b) ==
    \/ Len(a) < Len(b)
    \/ /\ Len(a) = Len(b)
       /\ \E i \in DOMAIN a : a[i] < b[i] /\ \A j \in DOMAIN a : j > i => a[j] = b[j]

\* the double nearest to m * 2^e, ties to the even significand
RoundToDouble(m, e) ==
    LET len == BigBitLength(m)
    IN  IF len <= DoubleBits THEN [m |-> m, e |-> e]
        ELSE LET s == len - DoubleBits
                 q == BigShr(m, s)
                 above == BigShr(m, s - 1)          \* q with the guard bit
                 guard == BigIsOdd(above)
                 sticky == BigShl(above, s - 1) # m
                 up == guard /\ (sticky \/ BigIsOdd(q))
             IN  [m |-> IF up THEN BigAdd(q, << 1 >>) ELSE q, e |-> e + s]

DoubleFromInt(n) == [m |-> BigFromInt(n), e |-> 0]

Min2(x, y) == IF x <= y THEN x ELSE y
Max2(x, y) == IF x >= y THEN x ELSE y

\* a + b
DoubleAdd(a, b) ==
    LET e == Min2(a.e, b.e)
    IN  RoundToDouble(BigAdd(BigShl(a.m, a.e - e), BigShl(b.m, b.e - e)), e)

\* i * a for an integer 0 <= i < 2^18
DoubleMulInt(i, a) == RoundToDouble(BigMulSmall(a.m, i), a.e)

\* a / 2 (exact)
DoubleHalf(a) == [m |-> a.m, e |-> a.e - 1]

\* n / k for integers n >= 0 and 0 < k < 2^18; the lowest bit of the rounded
\* number records a non-zero remainder
DoubleDivInts(n, k) ==
    LET d == BigDivSmall(BigShl(BigFromInt(n), QuotientShift), k)
    IN  RoundToDouble(BigAdd(BigShl(d.q, 1), IF d.r # 0 THEN << 1 >> ELSE << >>),
                      0 - QuotientShift - 1)

DoubleLess(a, b) ==
    LET e == Min2(a.e, b.e)
    IN  BigLess(BigShl(a.m, a.e - e), BigShl(b.m, b.e - e))

DoubleLeq(a, b) == ~DoubleLess(b, a)

\* Math.round(a) = floor(a + 1/2)
DoubleRound(a) ==
    IF a.e >= 0 THEN BigToInt(BigShl(a.m, a.e))
    ELSE BigToInt(BigShr(BigAdd(a.m, BigShl(<< 1 >>, (0 - a.e) - 1)), 0 - a.e))

(***************************************************************************)
(* calculateHistogramData (lines 413-453)                                  *)
(***************************************************************************)
MinBins == 10
MaxBins == 50

\* Math.floor(Math.sqrt(n))
ISqrt(n) == CHOOSE k \in 0 .. n : k * k <= n /\ n < (k + 1) * (k + 1)

\* the i-th bin (i from 0) with the count of the entries that fall into it
HistogramBin(entries, i, binCount, minDraws, binWidth, totalSimulations) ==
    LET binStart == DoubleAdd(DoubleFromInt(minDraws), DoubleMulInt(i, binWidth))
        binEnd == DoubleAdd(binStart, binWidth)
        binCenter == DoubleHalf(DoubleAdd(binStart, binEnd))
        InBin(draws) ==
            /\ DoubleLeq(binStart, DoubleFromInt(draws))
            /\ \/ DoubleLess(DoubleFromInt(draws), binEnd)
               \/ i = binCount - 1 /\ DoubleLeq(DoubleFromInt(draws), binEnd)
        count == SumEntries([k \in DOMAIN entries |->
                               IF InBin(entries[k].draws) THEN entries[k].count ELSE 0], 1)
    IN  [draws |-> DoubleRound(binCenter),
         count |-> count,
         percentage |-> DoubleMulInt(100, DoubleDivInts(count, totalSimulations)),
         binStart |-> binStart, binEnd |-> binEnd, binCenter |-> binCenter]

CalculateHistogramData(bucket, totalSimulations) ==
    LET entries == BucketEntries(bucket)
    IN  IF Len(entries) = 0 THEN << >>
        ELSE LET minDraws == entries[1].draws
                 maxDraws == entries[Len(entries)].draws
                 binCount == Min2(MaxBins, Max2(MinBins, ISqrt(totalSimulations)))
                 binWidth == DoubleDivInts(maxDraws - minDraws, binCount)
                 bins == [i \in 1 .. binCount |->
                            HistogramBin(entries, i - 1, binCount, minDraws, binWidth,
                                         totalSimulations)]
                 NonEmpty(bin) == bin.count > 0
             IN  SelectSeq(bins, NonEmpty)

(***************************************************************************)
(* The aggregator on its own: the outcomes of one run are folded into two  *)
(* tasks, in submission order and in a completion order, by the fold of    *)
(* handleWorkerComplete; then the statistics are derived as completeTask   *)
(* derives them.                                                           *)
(***************************************************************************)
MaxOutcomes == 3      \* most trials of the run

OutcomeDraws == {1, 2, 4, 10}
OutcomeCounts == { ("A" :> 1), ("A" :> 2) @@ ("B" :> 1) }
Outcomes == { [totalDraws |-> d, characterCounts |-> c] :
                d \in OutcomeDraws, c \in OutcomeCounts }

CompletionOrders(n) ==
    { p \in [1 .. n -> 1 .. n] : \A i, j \in 1 .. n : p[i] = p[j] => i = j }

EmptyTask == [drawsBucket |-> EmptyFn, characterCounts |-> EmptyFn]
NotDerived == [done |-> FALSE]

\* lines 254-268 of handleWorkerComplete
FoldOutcome(task, result) ==
    [drawsBucket |-> FoldDraws(task.drawsBucket, result.totalDraws),
     characterCounts |-> FoldCounts(task.characterCounts, result.characterCounts)]

InitAgg ==
    /\ \E n \in 1 .. MaxOutcomes :
          /\ outcomes \in [1 .. n -> Outcomes]
          /\ order \in CompletionOrders(n)
    /\ folded = 0
    /\ taskA = EmptyTask
    /\ taskB = EmptyTask
    /\ derived = NotDerived

AggFold ==
    /\ folded < Len(outcomes)
    /\ folded' = folded + 1
    /\ taskA' = FoldOutcome(taskA, outcomes[folded + 1])
    /\ taskB' = FoldOutcome(taskB, outcomes[order[folded + 1]])
    /\ UNCHANGED <<outcomes, order, derived>>

AggDerive ==
    /\ folded = Len(outcomes)
    /\ ~derived.done
    /\ derived' =
         [done |-> TRUE,
          cumulativeProbability |->
              CalculateCumulativeProbability(taskA.drawsBucket, Len(outcomes)),
          histogramData |-> CalculateHistogramData(taskA.drawsBucket, Len(outcomes)),
          statisticalDataA |-> CalculateStatisticalData(taskA.drawsBucket),
          statisticalDataB |-> CalculateStatisticalData(taskB.drawsBucket)]
    /\ UNCHANGED <<outcomes, order, folded, taskA, taskB>>

NextAgg ==
    \/ /\ AggFold
       /\ UNCHANGED notAggVars
    \/ /\ AggDerive
       /\ UNCHANGED notAggVars

AggIdle ==
    /\ outcomes = << >> /\ order = << >> /\ folded = 0
    /\ taskA = EmptyTask /\ taskB = EmptyTask /\ derived = NotDerived

(***************************************************************************)
(* One trial on its own: chouShuTongJi (src/unnamed/part_000 lines 59-115) *)
(* stepped one reward cycle at a time, every cycle calling gatcha and      *)
(* weightedChoice. `consumed` counts the random attempts gatcha made       *)
(* (its loop iterations), `cycles` the reward cycles.                      *)
(***************************************************************************)
MaxTrialCycles == 3     \* most reward cycles of the trial

\* what gatcha(b) can return together with the attempts the call made: a hit
\* in the first loop returns after xunfang += 1, a hit in the second before it
GatchaOutcomes(b) ==
    { [ret |-> r, attempts |-> r] : r \in GatchaLoop1Returns(b) }
    \cup { [ret |-> r, attempts |-> r + 1] : r \in GatchaLoop2Returns(b) }

TrialConfigs ==
    { << >>,
      << Op("A", 1, 0) >>,
      << Op("A", 1, 2) >>,
      << Op("A", 1, 1), Op("B", 2, 1) >>,
      << Op("Z", 0, 0), Op("A", 1, 1) >> }

TrialBasePities == {0, 50}

NoTrial ==
    [cfg |-> << >>, pc |-> "none", statistic |-> EmptyFn, total |-> 0,
     currentPity |-> 0, cycles |-> 0, consumed |-> 0]

\* lines 59-76: validation and the initial locals
TrialEnter(cfg, pity) ==
    [cfg |-> cfg,
     pc |-> IF cfg = << >> THEN "threw" ELSE "loop",
     statistic |-> ConstFn(ConfigNames(cfg), 0),
     total |-> 0, currentPity |-> pity, cycles |-> 0, consumed |-> 0]

InitTrial ==
    \E cfg \in TrialConfigs, pity \in TrialBasePities : trial = TrialEnter(cfg, pity)

\* one iteration of `while (!checkCompletion())`, lines 84-99
TrialCycle(outcome, selectedOperator) ==
    /\ trial.pc = "loop"
    /\ ~CheckCompletion(trial.cfg, trial.statistic)
    /\ trial.cycles < MaxTrialCycles
    /\ trial' = [trial EXCEPT
                   !.total = @ + outcome.ret,
                   !.currentPity = 0,
                   !.statistic = Increment(@, selectedOperator),
                   !.cycles = @ + 1,
                   !.consumed = @ + outcome.attempts]

\* the loop condition is false: lines 101-114
TrialReturn ==
    /\ trial.pc = "loop"
    /\ CheckCompletion(trial.cfg, trial.statistic)
    /\ trial' = [trial EXCEPT !.pc = "done"]

NextTrial ==
    \/ /\ \E outcome \in GatchaOutcomes(trial.currentPity),
             selectedOperator \in WeightedChoices(trial.cfg) :
               TrialCycle(outcome, selectedOperator)
       /\ UNCHANGED notTrialVars
    \/ /\ TrialReturn
       /\ UNCHANGED notTrialVars

TrialIdle == trial = NoTrial

(***************************************************************************)
(* The batched path on its own. One dispatch (GPUManager.runSimulation,    *)
(* part_003 lines 1184-1318) returns, for every lane, the differences      *)
(* gachaTable[basePity + i] - r1 (drawsGroup) and operatorCDF[j] - r2      *)
(* (operatorGroup) and decodes them into {name, draws} results; the loop   *)
(* of runGPUSimulation (workerManager.ts lines 646-700) folds the results  *)
(* into trials. The decoding reads only the sign of a difference, so a     *)
(* difference is kept as -1, 0 or 1.                                       *)
(***************************************************************************)
MaxHitIndex == 2        \* longest drawsGroup enumerated entry by entry
Signs == {-1, 0, 1}

BatchBasePities == {0, 1, 98}

BatchConfigs ==
    { << Op("A", 1, 1) >>,
      << Op("A", 1, 2) >>,
      << Op("A", 1, 1), Op("B", 2, 1) >> }

\* drawsPerGroup = 100 - basePity, line 1246
DrawsPerGroup(pity) == MaxPity - pity

\* the drawsGroup arrays a lane can hold: every array of a short group; of a
\* long one, those negative up to position h (h = 0: negative throughout)
DrawsGroups(pity) ==
    LET n == DrawsPerGroup(pity)
    IN  IF n <= MaxHitIndex
          THEN [1 .. n -> Signs]
          ELSE { [i \in 1 .. n |-> IF h = 0 \/ i < h THEN -1
                                   ELSE IF i = h THEN v ELSE 1] :
                   h \in 0 .. MaxHitIndex, v \in {0, 1} }

OperatorGroups(cfg) == [1 .. Len(cfg) -> Signs]

BatchLaneInputs(cfg, pity) ==
    [drawsGroup : DrawsGroups(pity), operatorGroup : OperatorGroups(cfg)]

Least(S) == CHOOSE x \in S : \A y \in S : x <= y

\* the body of the lane loop, lines 1262-1307: the results the lane appends
\* a decode that takes a lane without a hit for a hit at its last position
DecodeLane_AssumeHit(lane, cfg, pity) ==
    LET hits == { i \in DOMAIN lane.drawsGroup : lane.drawsGroup[i] >= 0 }
        firstHitDraw == IF hits = {} THEN pity + Len(lane.drawsGroup)
                        ELSE pity + (Least(hits) - 1) + 1
        selected == { j \in DOMAIN lane.operatorGroup : lane.operatorGroup[j] > 0 }
        selectedOperatorName ==
            IF firstHitDraw > 0 /\ selected # {} THEN cfg[Least(selected)].name ELSE ""
    IN  IF firstHitDraw > 0 /\ selectedOperatorName # ""
          THEN << [name |-> selectedOperatorName, draws |-> firstHitDraw] >>
          ELSE << >>

DecodeLane(lane, cfg, pity) ==
    LET hits == { i \in DOMAIN lane.drawsGroup : lane.drawsGroup[i] >= 0 }
        firstHitDraw == IF hits = {} THEN -1
                        ELSE pity + (Least(hits) - 1) + 1
        selected == { j \in DOMAIN lane.operatorGroup : lane.operatorGroup[j] > 0 }
        selectedOperatorName ==
            IF firstHitDraw > 0 /\ selected # {} THEN cfg[Least(selected)].name ELSE ""
    IN  IF firstHitDraw > 0 /\ selectedOperatorName # ""
          THEN << [name |-> selectedOperatorName, draws |-> firstHitDraw] >>
          ELSE << >>

\* `for (let i = 0; i < result.batchSize; i++)`, lines 1262-1314
RECURSIVE DecodeLanes(_, _, _)
DecodeLanes(lanes, cfg, pity) ==
    IF lanes = << >> THEN << >>
    ELSE DecodeLane(Head(lanes), cfg, pity) \o DecodeLanes(Tail(lanes), cfg, pity)

NoBatch ==
    [pc |-> "none", operatorConfig |-> << >>, basePity |-> 0, totalSimulations |-> 0,
     currentSim |-> 0, drawsBucket |-> EmptyFn, characterCounts |-> EmptyFn,
     lanes |-> << >>, results |-> << >>, batches |-> 0]

\* runGPUSimulation(totalSimulations, operatorConfig, basePity) up to its first
\* await, lines 626-648
BatchEnter(n, cfg, pity) ==
    [NoBatch EXCEPT !.pc = "await", !.operatorConfig = cfg, !.basePity = pity,
                    !.totalSimulations = n]

InitBatch ==
    \E n \in 1 .. MaxSims, cfg \in BatchConfigs, pity \in BatchBasePities :
        batch = BatchEnter(n, cfg, pity)

\* `results = await this.gpuManager.runSimulation(newOperatorConfig)`, line 648
GPURunSimulation(lanes) ==
    /\ batch.pc = "await"
    /\ batch.batches < MaxBatches
    /\ batch' = [batch EXCEPT
                   !.lanes = lanes,
                   !.results = DecodeLanes(lanes, batch.operatorConfig, batch.basePity),
                   !.batches = @ + 1,
                   !.pc = "fold"]

\* the `while (results && results.length > 0)` loop, lines 655-699, and the
\* test of the enclosing for loop
FoldBatch ==
    /\ batch.pc = "fold"
    /\ LET D == DecodeResults(batch.results,
                              [currentSim |-> batch.currentSim,
                               drawsBucket |-> batch.drawsBucket,
                               characterCounts |-> batch.characterCounts,
                               rewardEvents |-> 0],
                              batch)
       IN  batch' = [batch EXCEPT
                       !.currentSim = D.currentSim,
                       !.drawsBucket = D.drawsBucket,
                       !.characterCounts = D.characterCounts,
                       !.lanes = << >>,
                       !.results = << >>,
                       !.pc = IF D.currentSim < batch.totalSimulations
                                THEN "await" ELSE "done"]

NextBatch ==
    \/ /\ batch.pc = "await"
       /\ \E lanes \in SeqsUpTo(BatchLaneInputs(batch.operatorConfig, batch.basePity),
                                 BatchLanes) :
            GPURunSimulation(lanes)
       /\ UNCHANGED notBatchVars
    \/ /\ FoldBatch
       /\ UNCHANGED notBatchVars

BatchIdle == batch = NoBatch

(***************************************************************************)
(* One category selection on both paths: weightedChoice (part_000 lines    *)
(* 39-51) on the worker, and on the batched path the operator CDF of       *)
(* buildProbabilityLookupTable (part_003 lines 656-685) built from the     *)
(* operators runGPUSimulation passes (workerManager.ts lines 628-634),     *)
(* the shader's difference cdf[j] - r2 and the decode of line 1283-1299.   *)
(* Both are given the same fraction: random = r2 / 2 on the worker, that   *)
(* is the fraction r2 / (2 * totalWeight), which is the lane's r2.         *)
(* Fractions are exact.                                                    *)
(***************************************************************************)
MaxWeight == 2          \* largest weight of a category
MaxCategories == 3      \* most categories of a configuration

ChoiceNames == << "A", "B", "C", "D", "E" >>

\* the weight lists runSimulation hands on: sorted ascending, not all zero
ChoiceWeights ==
    { ws \in UNION { [1 .. n -> 0 .. MaxWeight] : n \in 1 .. MaxCategories } :
        /\ \A i \in 1 .. (Len(ws) - 1) : ws[i] <= ws[i + 1]
        /\ \E i \in DOMAIN ws : ws[i] > 0 }

ChoiceConfig(ws) == [i \in DOMAIN ws |-> Op(ChoiceNames[i], ws[i], 1)]

\* runGPUSimulation lines 628-634: weight: operatorConfig[name].weight || 1
GPUOperators(cfg) ==
    [i \in DOMAIN cfg |->
        [name |-> cfg[i].name,
         weight |-> IF cfg[i].weight = 0 THEN 1 ELSE cfg[i].weight]]

\* buildProbabilityLookupTable lines 660-680: pmf[i] = weight / totalWeight,
\* the running sums, the last one set to 1.0
OperatorCDF(operators) ==
    LET totalWeight == SumWeights(operators)
        RECURSIVE Running(_)
        Running(i) == IF i = 0 THEN 0 ELSE Running(i - 1) + operators[i].weight
    IN  [i \in DOMAIN operators |->
            IF i = Len(operators) THEN Frac(1, 1) ELSE Frac(Running(i), totalWeight)]

\* the sign of a - b, for positive denominators
SignOfDifference(a, b) ==
    LET d == a.num * b.den - b.num * a.den
    IN  IF d > 0 THEN 1 ELSE IF d < 0 THEN -1 ELSE 0

\* the lane's operatorGroup: cdf[j] - r2 for every operator
OperatorGroupAt(cdf, fraction) ==
    [j \in DOMAIN cdf |-> SignOfDifference(cdf[j], fraction)]

\* the category the batched decode selects ("" when the lane is dropped)
BatchedChoice(cfg, fraction) ==
    LET operators == GPUOperators(cfg)
        lane == [drawsGroup |-> << 0 >>,
                 operatorGroup |-> OperatorGroupAt(OperatorCDF(operators), fraction)]
        decoded == DecodeLane(lane, operators, MaxPity - 1)
    IN  IF decoded = << >> THEN "" ELSE decoded[1].name

NoChoice == [pc |-> "none", cfg |-> << >>, r2 |-> 0, worker |-> "", batched |-> ""]

InitChoice ==
    \E ws \in ChoiceWeights :
        \E r2 \in 0 .. (2 * SumWeights(ChoiceConfig(ws)) - 1) :
            choice = [NoChoice EXCEPT !.pc = "start", !.cfg = ChoiceConfig(ws), !.r2 = r2]

ChooseOnWorker ==
    /\ choice.pc = "start"
    /\ choice' = [choice EXCEPT !.worker = WeightedChoice(choice.cfg, choice.r2),
                                !.pc = "worker"]

ChooseOnBatch ==
    /\ choice.pc = "worker"
    /\ choice' = [choice EXCEPT
                    !.batched = BatchedChoice(choice.cfg,
                                              Frac(choice.r2, 2 * SumWeights(choice.cfg))),
                    !.pc = "done"]

NextChoice ==
    \/ /\ ChooseOnWorker
       /\ UNCHANGED notChoiceVars
    \/ /\ ChooseOnBatch
       /\ UNCHANGED notChoiceVars

ChoiceIdle == choice = NoChoice

(***************************************************************************)
(* calculateStatisticalData on its own (workerManager.ts lines 493-537):   *)
(* the bucket of a finished run is any non-empty bag of draw totals.       *)
(***************************************************************************)
MaxStatDraws == 5       \* largest draw total in the bucket
MaxStatCount == 4       \* most trials with the same draw total

StatBuckets ==
    { Restrict(b, { d \in DOMAIN b : b[d] > 0 }) :
        b \in [1 .. MaxStatDraws -> 0 .. MaxStatCount] } \ { EmptyFn }

NoStats == [pc |-> "idle"]

InitStats ==
    \E b \in StatBuckets : statCall = [pc |-> "call", drawsBucket |-> b]

StatsCompute ==
    /\ statCall.pc = "call"
    /\ statCall' = [pc |-> "done", drawsBucket |-> statCall.drawsBucket,
                 statisticalData |-> CalculateStatisticalData(statCall.drawsBucket)]

NextStats ==
    /\ StatsCompute
    /\ UNCHANGED notStatsVars

StatsIdle == statCall = NoStats

(***************************************************************************)
(* The GPU status listeners: notifyGPUStatusChange (lines 170-179),        *)
(* onGPUStatusChange (184-197), setGPUEnabled (202-208) and the end of a   *)
(* supported initializeGPU (lines 144-154). The caller passes a new        *)
(* function on every subscription (src/unnamed/part_002 lines 45-64), so   *)
(* callbacks are numbered in the order they were passed. `received` is     *)
(* what each callback was called with, `unsubscribeCalls` how often the    *)
(* function returned for it was called, `setting` the argument of the      *)
(* latest setGPUEnabled call.                                              *)
(***************************************************************************)
MaxCallbacks == 2       \* most onGPUStatusChange calls
MaxSets == 3            \* most setGPUEnabled calls while listeners are followed

Callbacks == 1 .. MaxCallbacks

NoListeners ==
    [gpuStatusCallbacks |-> << >>,
     received |-> [c \in Callbacks |-> << >>],
     issued |-> 0,
     unsubscribeCalls |-> [c \in Callbacks |-> 0],
     setting |-> "none",
     sets |-> 0]

InitListeners == listeners = NoListeners

\* gpuStatusCallbacks.indexOf(callback): 0 stands for -1
IndexOf(callbacks, c) ==
    IF \E i \in DOMAIN callbacks : callbacks[i] = c
      THEN Least({ i \in DOMAIN callbacks : callbacks[i] = c })
      ELSE 0

\* gpuStatusCallbacks.splice(index, 1)
Splice(callbacks, index) ==
    [i \in 1 .. (Len(callbacks) - 1) |->
        IF i < index THEN callbacks[i] ELSE callbacks[i + 1]]

\* a notification that reaches the first listener only
NotifyGPUStatusChange_FirstOnly(L, status) ==
    [L EXCEPT !.received =
        [c \in Callbacks |->
            IF L.gpuStatusCallbacks # << >> /\ L.gpuStatusCallbacks[1] = c
              THEN Append(L.received[c], status) ELSE L.received[c]]]

\* notifyGPUStatusChange with status = {available, enabled}
NotifyGPUStatusChange(L, status) ==
    [L EXCEPT !.received =
        [c \in Callbacks |->
            IF IndexOf(L.gpuStatusCallbacks, c) > 0
              THEN Append(L.received[c], status) ELSE L.received[c]]]

OnGPUStatusChange ==
    /\ listeners.issued < MaxCallbacks
    /\ LET callback == listeners.issued + 1
       IN  listeners' =
             [listeners EXCEPT
                !.issued = callback,
                !.gpuStatusCallbacks = Append(@, callback),
                !.received[callback] =
                    Append(@, [available |-> isGPUAvailable, enabled |-> isGPUEnabled])]
    /\ UNCHANGED managerVars

\* the function returned by onGPUStatusChange(callback)
Unsubscribe(callback) ==
    /\ callback <= listeners.issued
    /\ listeners.unsubscribeCalls[callback] < 2
    /\ LET index == IndexOf(listeners.gpuStatusCallbacks, callback)
       IN  listeners' =
             [listeners EXCEPT
                !.unsubscribeCalls[callback] = @ + 1,
                !.gpuStatusCallbacks = IF index > 0 THEN Splice(@, index) ELSE @]
    /\ UNCHANGED managerVars

\* setGPUEnabled(enabled), the notification included
SetGPUEnabledNotify(enabled) ==
    /\ listeners.sets < MaxSets
    /\ SetGPUEnabled(enabled)
    /\ listeners' =
         NotifyGPUStatusChange(
             [listeners EXCEPT !.sets = @ + 1,
                               !.setting = IF enabled THEN "on" ELSE "off"],
             [available |-> isGPUAvailable, enabled |-> enabled /\ isGPUAvailable])

\* checkGPUSupport settles: no notification on either branch
InitializeGPUCheckQuiet(supported) ==
    /\ InitializeGPUCheck(supported)
    /\ UNCHANGED listeners

\* gpuManager.initialize() settles, the notification of line 154 included
InitializeGPUInitNotify(ok) ==
    /\ InitializeGPUInit(ok)
    /\ listeners' =
         NotifyGPUStatusChange(listeners,
             [available |-> ok, enabled |-> IF ok THEN TRUE ELSE isGPUEnabled])

notManagerListenersVars ==
    <<gatchaVars, aggVars, trialVars, batchVars, choiceVars, statsVars>>

NextListeners ==
    \/ /\ OnGPUStatusChange
       /\ UNCHANGED notManagerListenersVars
    \/ /\ \E callback \in Callbacks : Unsubscribe(callback)
       /\ UNCHANGED notManagerListenersVars
    \/ /\ \E enabled \in BOOLEAN : SetGPUEnabledNotify(enabled)
       /\ UNCHANGED notManagerListenersVars
    \/ /\ \E supported \in BOOLEAN : InitializeGPUCheckQuiet(supported)
       /\ UNCHANGED notManagerListenersVars
    \/ /\ \E ok \in BOOLEAN : InitializeGPUInitNotify(ok)
       /\ UNCHANGED notManagerListenersVars

ListenersIdle == listeners = NoListeners

(***************************************************************************)
(* GPUManager.buildProbabilityLookupTable (src/unnamed/part_003 lines      *)
(* 598-617): the hit probability, in per cent, from which the table's PMF  *)
(* entry of a pity position is built (pmf[pity] = survival * p).           *)
(***************************************************************************)
TableRampOffset == 48     \* 0.02 + 0.02 * (pity - 48)

TableHitPercent(pity) ==
    IF pity < SoftPityStart THEN BaseProb                       \* lines 603-607
    ELSE IF pity < MaxPity - 1
           THEN Min2(RandMax, BaseProb + ProbStep * (pity - TableRampOffset))
           ELSE RandMax                                          \* pmf[99] = survival

(***************************************************************************)
(* Specifications                                                          *)
(***************************************************************************)
GatchaIdle ==
    /\ basePity = 0 /\ xunfang = 0 /\ currentProb = BaseProb
    /\ g_pc = "done" /\ attempts = 0 /\ ret = NoRet

\* the manager after its constructor (lines 95-110)
InitManager ==
    /\ workers = Workers
    /\ availableWorkers = [i \in 1 .. WorkerCount |-> i]
    /\ activeTasks = EmptyFn
    /\ inbox = [w \in Workers |-> << >>]
    /\ replies = {}
    /\ isGPUEnabled = FALSE
    /\ isGPUAvailable = FALSE
    /\ gpuInitialized = FALSE
    /\ gpuInitPc = "check"
    /\ gpuRuns = EmptyFn
    /\ request = [r \in RunIds |-> NoRequest]
    /\ promise = [r \in RunIds |-> NotCalled]
    /\ trace = [r \in RunIds |-> NoTrace]

Init == GatchaIdle /\ InitManager /\ AggIdle /\ TrialIdle /\ BatchIdle /\ ChoiceIdle /\ StatsIdle /\ ListenersIdle

Next ==
    \/ /\ \E n \in 1 .. MaxSims, cfg \in ConfigInputs, pity \in RunBasePities :
            RunSimulation(n, cfg, pity)
       /\ UNCHANGED notManagerVars
    \/ /\ \E w \in Workers : WorkerRun(w)
       /\ UNCHANGED notManagerVars
    \/ /\ \E m \in replies : HandleWorkerMessage(m)
       /\ UNCHANGED notManagerVars
    \/ /\ \E r \in DOMAIN gpuRuns :
            \E results \in BatchResults(gpuRuns[r].operatorConfig, gpuRuns[r].basePity) :
                GPUBatch(r, results)
       /\ UNCHANGED notManagerVars
    \/ /\ \E r \in DOMAIN gpuRuns : GPUDispatchFails(r)
       /\ UNCHANGED notManagerVars
    \/ /\ \E supported \in BOOLEAN : InitializeGPUCheck(supported)
       /\ UNCHANGED notManagerVars
    \/ /\ \E ok \in BOOLEAN : InitializeGPUInit(ok)
       /\ UNCHANGED notManagerVars
    \/ /\ \E enabled \in BOOLEAN : SetGPUEnabled(enabled)
       /\ UNCHANGED notManagerVars

Spec == Init /\ [][Next]_vars

InitSpecGatcha == InitGatcha /\ InitManager /\ AggIdle /\ TrialIdle /\ BatchIdle /\ ChoiceIdle /\ StatsIdle /\ ListenersIdle

SpecGatcha == InitSpecGatcha /\ [][NextGatcha]_vars

InitSpecAgg == GatchaIdle /\ InitManager /\ InitAgg /\ TrialIdle /\ BatchIdle /\ ChoiceIdle /\ StatsIdle /\ ListenersIdle

SpecAgg == InitSpecAgg /\ [][NextAgg]_vars

InitSpecTrial == GatchaIdle /\ InitManager /\ AggIdle /\ InitTrial /\ BatchIdle /\ ChoiceIdle /\ StatsIdle /\ ListenersIdle

SpecTrial == InitSpecTrial /\ [][NextTrial]_vars

InitSpecBatch == GatchaIdle /\ InitManager /\ AggIdle /\ TrialIdle /\ InitBatch /\ ChoiceIdle /\ StatsIdle /\ ListenersIdle

SpecBatch == InitSpecBatch /\ [][NextBatch]_vars

InitSpecChoice == GatchaIdle /\ InitManager /\ AggIdle /\ TrialIdle /\ BatchIdle /\ InitChoice /\ StatsIdle /\ ListenersIdle

SpecChoice == InitSpecChoice /\ [][NextChoice]_vars

InitSpecStats ==
    GatchaIdle /\ InitManager /\ AggIdle /\ TrialIdle /\ BatchIdle /\ ChoiceIdle /\ InitStats
        /\ ListenersIdle

SpecStats == InitSpecStats /\ [][NextStats]_vars

InitSpecListeners ==
    GatchaIdle /\ InitManager /\ AggIdle /\ TrialIdle /\ BatchIdle /\ ChoiceIdle /\ StatsIdle
        /\ InitListeners

SpecListeners == InitSpecListeners /\ [][NextListeners]_vars

(***************************************************************************)
(* C1: for every basePity in 0..99 and every sequence of random integers,  *)
(* gatcha(basePity) returns a value in [1, 100 - basePity]; it never       *)
(* returns 0.                                                              *)
(***************************************************************************)
C1_ReturnInRange ==
    g_pc = "done" => (ret >= 1 /\ ret <= MaxPity - basePity)

(***************************************************************************)
(* C2: the value returned by gatcha(basePity) equals the number of random  *)
(* attempts made in the call, up to and including the attempt that hit.    *)
(***************************************************************************)
C2_ReturnIsAttempts ==
    g_pc = "done" => ret = attempts

\* the set GatchaReturns used by the worker model contains every value the
\* stepwise gatcha returns
GatchaReturnsCoversSteps ==
    g_pc = "done" => ret \in GatchaReturns(basePity)

\* and GatchaOutcomes pairs each of them with the attempts the call made
GatchaOutcomesCoverSteps ==
    g_pc = "done" =>
        [ret |-> ret, attempts |-> attempts] \in GatchaOutcomes(basePity)

(***************************************************************************)
(* C3: when a run of N trials resolves, on the worker-pool path and on the *)
(* batched path, the counts of the returned drawsBucket sum to N and equal *)
(* the returned totalSimulations; on the worker-pool path the bucket sum   *)
(* equals completedSimulations after every handled completion.             *)
(***************************************************************************)
C3_BucketSumIsN ==
    /\ \A r \in RunIds :
         promise[r].state = "resolved" =>
            /\ BucketSum(promise[r].statistics.drawsBucket) = request[r].total
            /\ promise[r].statistics.totalSimulations = request[r].total
    /\ \A t \in DOMAIN activeTasks :
         BucketSum(activeTasks[t].drawsBucket) = activeTasks[t].completedSimulations

\* a run of MaxSims trials resolved on each path, the pool run with two
\* different draw counts in its bucket
C3_Witness ==
    \E r1, r2 \in RunIds :
        /\ promise[r1].state = "resolved" /\ trace[r1].path = "gpu"
        /\ request[r1].total = MaxSims
        /\ promise[r2].state = "resolved" /\ trace[r2].path = "cpu"
        /\ request[r2].total = MaxSims
        /\ Cardinality(DOMAIN promise[r2].statistics.drawsBucket) >= 2

(***************************************************************************)
(* C4: every run started on the worker-pool path eventually resolves or is *)
(* rejected, given that every worker answers every task. Stated on finite  *)
(* runs: a run that is still active always has a trial outstanding (a task *)
(* at a worker or a reply not yet handled). Only the replies to its own    *)
(* trials make the scheduler touch a run, so an active run with no trial   *)
(* outstanding is never resolved and never rejected.                       *)
(***************************************************************************)
Outstanding(r) ==
    \/ \E w \in Workers : \E i \in DOMAIN inbox[w] : inbox[w][i].taskId = r
    \/ \E m \in replies : m.taskId = r

C4_NoRunStranded ==
    \A r \in DOMAIN activeTasks : Outstanding(r)

(***************************************************************************)
(* C5: when a worker reports an error for a trial of a run, the run's      *)
(* promise is rejected with the reported error and the run leaves the      *)
(* active set; afterwards none of its pending trials is dispatched and the *)
(* promise is never resolved.                                              *)
(***************************************************************************)
TasksOf(ib, r) ==
    UNION { { <<w, ib[w][i].simulationIndex>> :
                i \in { j \in DOMAIN ib[w] : ib[w][j].taskId = r } } : w \in Workers }

C5_ErrorRejectsRun ==
    [][ /\ \A m \in replies :
             (m.type = "error" /\ m \notin replies' /\ m.taskId \in DOMAIN activeTasks)
               => /\ promise'[m.taskId] = Rejected(m.error)
                  /\ m.taskId \notin DOMAIN activeTasks'
        /\ \A m \in replies' :
             m.type = "error" =>
                \/ m.taskId \in DOMAIN activeTasks' /\ promise'[m.taskId].state = "pending"
                \/ promise'[m.taskId].state = "rejected"
        /\ \A r \in RunIds :
             promise[r].state = "rejected"
               => /\ promise'[r] = promise[r]
                  /\ r \notin DOMAIN activeTasks'
                  /\ TasksOf(inbox', r) \subseteq TasksOf(inbox, r)
      ]_vars

\* a run was rejected with the worker's error while trials of it had not been
\* dispatched yet
C5_Witness ==
    \E r \in RunIds :
        /\ promise[r] = Rejected(EmptyConfigError)
        /\ trace[r].path = "cpu"
        /\ trace[r].dispatched
        /\ trace[r].dropped >= 1

(***************************************************************************)
(* C6: if the batched backend fails during a run, runSimulation still      *)
(* resolves through the worker-pool path, with totalSimulations and the    *)
(* bucket sum equal to the requested count and no outcome of the batched   *)
(* path in the result. Stated on finite runs, for a non-empty              *)
(* configuration: a run that fell back has resolved with such a result     *)
(* (every counted outcome folded from a worker reply), or is still active  *)
(* with a trial outstanding.                                               *)
(***************************************************************************)
C6_FallbackResolves ==
    \A r \in RunIds :
        (trace[r].fellBack /\ request[r].config # << >>) =>
            \/ /\ promise[r].state = "resolved"
               /\ promise[r].statistics.totalSimulations = request[r].total
               /\ BucketSum(promise[r].statistics.drawsBucket) = request[r].total
               /\ trace[r].workerFolds = request[r].total
            \/ /\ promise[r].state = "pending"
               /\ r \in DOMAIN activeTasks
               /\ Outstanding(r)

(***************************************************************************)
(* C7: folding the same multiset of trial outcomes into a run's bucket and *)
(* category counters in any completion order yields the same bucket and    *)
(* counters, hence identical mean, median and sigma.                       *)
(***************************************************************************)
C7_FoldOrderIndependent ==
    derived.done =>
        /\ taskA.drawsBucket = taskB.drawsBucket
        /\ taskA.characterCounts = taskB.characterCounts
        /\ derived.statisticalDataA.mean = derived.statisticalDataB.mean
        /\ derived.statisticalDataA.median = derived.statisticalDataB.median
        /\ derived.statisticalDataA.variance = derived.statisticalDataB.variance

\* outcomes that differ in draws and in counters were folded in two different
\* orders, one draw value occurring twice
C7_Witness ==
    /\ derived.done
    /\ Len(outcomes) = MaxOutcomes
    /\ \E i \in DOMAIN order : order[i] # i /\ outcomes[order[i]] # outcomes[i]
    /\ \E d \in DOMAIN taskA.drawsBucket : taskA.drawsBucket[d] >= 2
    /\ Cardinality(DOMAIN taskA.drawsBucket) >= 2

(***************************************************************************)
(* C8: for the bucket of a completed run, calculateCumulativeProbability   *)
(* returns one point per distinct draw value in ascending draw order, its  *)
(* probabilities never decrease, and the point at the maximum observed     *)
(* draw value is exactly 100.                                              *)
(***************************************************************************)
C8_CumulativeCurve ==
    derived.done =>
        LET cp == derived.cumulativeProbability
            bucket == taskA.drawsBucket
        IN  /\ Len(cp) = Cardinality(DOMAIN bucket)
            /\ { cp[i].draws : i \in DOMAIN cp } = DOMAIN bucket
            /\ \A i, j \in DOMAIN cp :
                  i < j => /\ cp[i].draws < cp[j].draws
                           /\ NumLeq(cp[i].probability, cp[j].probability)
            /\ \A i \in DOMAIN cp :
                  (\A d \in DOMAIN bucket : d <= cp[i].draws)
                     => NumEq(cp[i].probability, Whole(100))
                        /\ cp[i].probability.num = 100 * cp[i].probability.den

\* a curve over three draw values, a one-digit value above 1 and a two-digit one
C8_Witness ==
    /\ derived.done
    /\ Len(derived.cumulativeProbability) = 3
    /\ DOMAIN taskA.drawsBucket = {1, 2, 10}

(***************************************************************************)
(* C11: for every non-empty bucket with total count T, the median of       *)
(* calculateStatisticalData is the ceil(T/2)-th smallest trial value (the  *)
(* first draw value, ascending, whose cumulative count reaches ceil(T/2)), *)
(* and p25 and p75 are obtained the same way for the 25% and 75%           *)
(* positions.                                                              *)
(***************************************************************************)
CeilDiv(a, b) == (a + b - 1) \div b

\* the k-th smallest trial value of the bucket, 1 <= k <= total count
KthSmallest(bucket, k) ==
    CHOOSE d \in DOMAIN bucket :
        /\ SumOver(bucket, { x \in DOMAIN bucket : x <= d }) >= k
        /\ SumOver(bucket, { x \in DOMAIN bucket : x < d }) < k

C11_QuantilesByCeilRank ==
    derived.done =>
        LET bucket == taskA.drawsBucket
            T == BucketSum(bucket)
            data == derived.statisticalDataA
        IN  /\ data.median = Whole(KthSmallest(bucket, CeilDiv(T, 2)))
            /\ data.p25 = Whole(KthSmallest(bucket, CeilDiv(T, 4)))
            /\ data.p75 = Whole(KthSmallest(bucket, CeilDiv(3 * T, 4)))

(***************************************************************************)
(* C12: calculateHistogramData assigns every distinct draw value's count   *)
(* to exactly one of its clamp(floor(sqrt(totalTrials)), 10, 50) bins and  *)
(* emits only non-empty bins; the counts of the emitted bins sum to        *)
(* totalTrials, also when all trials have the same draw value.             *)
(***************************************************************************)
C12_HistogramCountsAll ==
    derived.done =>
        LET bins == derived.histogramData
            bucket == taskA.drawsBucket
        IN  /\ \A i \in DOMAIN bins : bins[i].count > 0
            /\ SumEntries([i \in DOMAIN bins |-> bins[i].count], 1) = Len(outcomes)
            /\ \A d \in DOMAIN bucket :
                  \E i \in DOMAIN bins :
                      /\ DoubleLeq(bins[i].binStart, DoubleFromInt(d))
                      /\ DoubleLeq(DoubleFromInt(d), bins[i].binEnd)

(***************************************************************************)
(* C13: one trial keeps performing reward cycles while some category with  *)
(* target > 0 is below its target and stops at the first reward event      *)
(* after which every such category has reached it; it returns total equal  *)
(* to the sum of the draws of all its reward cycles and per-category       *)
(* counts whose sum is the number of reward cycles; it terminates when     *)
(* every targeted category has positive weight (stated on finite runs: a   *)
(* trial that has not returned can still select each category it misses).  *)
(***************************************************************************)
Unmet(cfg, statistic) ==
    { i \in DOMAIN cfg : cfg[i].target > 0 /\ statistic[cfg[i].name] < cfg[i].target }

\* the loop's own logic: when it cycles, when it stops, what it counts
C13_TrialLoopLogic ==
    /\ trial.pc = "done" =>
          /\ Unmet(trial.cfg, trial.statistic) = {}
          /\ CountsSum(trial.statistic) = trial.cycles
    /\ trial.pc = "loop" =>
          /\ CountsSum(trial.statistic) = trial.cycles
          /\ \A i \in Unmet(trial.cfg, trial.statistic) :
                trial.cfg[i].weight > 0
                   => trial.cfg[i].name \in WeightedChoices(trial.cfg)

C13_TrialStopsAtFirst ==
    [][ /\ trial'.cycles > trial.cycles => Unmet(trial.cfg, trial.statistic) # {}
        /\ trial'.pc = "done" => trial'.cycles = trial.cycles
      ]_vars

C13_TrialTotals ==
    trial.pc = "done" =>
        /\ Unmet(trial.cfg, trial.statistic) = {}
        /\ CountsSum(trial.statistic) = trial.cycles
        /\ trial.total = trial.consumed

(***************************************************************************)
(* C14: the batched path's pity table is built from the same per-position  *)
(* hit probability as gatcha: 2% at every position p < 50,                 *)
(* min(100%, 2% + 2% * (p - 49)) at 50 <= p < 99, a guaranteed hit at the  *)
(* last position. Whenever gatcha is about to draw at pity position        *)
(* xunfang, the probability it compares the draw with is the table's.      *)
(***************************************************************************)
\* the probability of the attempt gatcha makes next, in per cent
GatchaHitPercent ==
    IF g_pc = "loop1" THEN currentProb ELSE Min2(RandMax, currentProb + ProbStep)

C14_TableMatchesGatcha ==
    (g_pc = "loop2" \/ (g_pc = "loop1" /\ xunfang < SoftPityStart))
        => TableHitPercent(xunfang) = GatchaHitPercent

(***************************************************************************)
(* C15: each pending trial id of a run is dispatched to at most one worker *)
(* and at most once, each worker has at most one trial outstanding, a      *)
(* worker is sent a task only when it is taken out of the idle set, and it *)
(* re-enters the idle set only in the step that receives its reply (or     *)
(* that creates the pool).                                                 *)
(***************************************************************************)
IdleSet(av) == { av[i] : i \in DOMAIN av }

OutstandingAt(w) ==
    Len(inbox[w]) + Cardinality({ m \in replies : m.workerId = w })

\* the places the trial id i of run r is held at: the pending list, a task at
\* a worker, a reply on its way to the scheduler
HoldersOf(r, i) ==
    Cardinality({ k \in DOMAIN activeTasks[r].pendingSimulations :
                    activeTasks[r].pendingSimulations[k] = i })
    + Cardinality(UNION { { <<w, k>> : k \in { j \in DOMAIN inbox[w] :
                                /\ inbox[w][j].taskId = r
                                /\ inbox[w][j].simulationIndex = i } } : w \in Workers })
    + Cardinality({ m \in replies : m.taskId = r /\ m.simulationIndex = i })

C15_OneOutstanding ==
    /\ \A w \in Workers :
          /\ OutstandingAt(w) <= 1
          /\ w \in IdleSet(availableWorkers) => OutstandingAt(w) = 0
    /\ \A r \in DOMAIN activeTasks :
          \A i \in 0 .. activeTasks[r].totalSimulations :
              HoldersOf(r, i) <= 1

C15_DispatchStep ==
    \A w \in Workers :
        /\ Len(inbox'[w]) > Len(inbox[w]) =>
              LET t == inbox'[w][Len(inbox'[w])]
              IN  /\ Len(inbox'[w]) = 1
                  /\ \/ w \in IdleSet(availableWorkers)
                     \/ workers = {}
                     \/ \E m \in replies : m \notin replies' /\ m.workerId = w
                  /\ w \notin IdleSet(availableWorkers')
                  /\ t.workerId = w
                  /\ t.taskId \in DOMAIN activeTasks'
                  /\ t.taskId \in DOMAIN activeTasks =>
                        t.simulationIndex \in
                            IdleSet(activeTasks[t.taskId].pendingSimulations)
                  /\ t.simulationIndex \notin
                        IdleSet(activeTasks'[t.taskId].pendingSimulations)
        /\ (w \notin IdleSet(availableWorkers) /\ w \in IdleSet(availableWorkers')) =>
              \/ workers = {}
              \/ \E m \in replies : m \notin replies' /\ m.workerId = w

C15_ExclusiveDispatch ==
    [](C15_OneOutstanding) /\ [][C15_DispatchStep]_vars

\* the second worker answered the first trial of a run and holds its second
\* trial: the first worker has been busy with an earlier run all along
C15_Witness ==
    \E r \in DOMAIN activeTasks :
        /\ trace[r].workerFolds = 1
        /\ activeTasks[r].drawsBucket # EmptyFn
        /\ inbox[2] # << >>
        /\ inbox[2][1].taskId = r
        /\ inbox[2][1].simulationIndex = 1
        /\ inbox[1] # << >>
        /\ inbox[1][1].taskId < r
        /\ trace[inbox[1][1].taskId].workerFolds = 0
        /\ ~trace[inbox[1][1].taskId].fellBack
        /\ availableWorkers = << >>

(***************************************************************************)
(* C16: greedy reassignment. Once the scheduler has handled a worker's     *)
(* successful completion, no worker is idle while an active run still has  *)
(* pending trial ids.                                                      *)
(***************************************************************************)
C16_GreedyReassignment ==
    [][ \A m \in replies :
          (m.type = "complete" /\ m \notin replies' /\ m.taskId \in DOMAIN activeTasks)
            => (availableWorkers' # << >> =>
                  \A r \in DOMAIN activeTasks' :
                      activeTasks'[r].pendingSimulations = << >>) ]_vars

(***************************************************************************)
(* C17: on the worker-pool path the progress callback is invoked exactly   *)
(* once per folded trial outcome, after the fold and before the run        *)
(* resolves, with the value completed / totalRequested * 100; the reported *)
(* values are strictly increasing and the last one reported before the run *)
(* resolves is 100.                                                        *)
(***************************************************************************)
C17_ProgressPerFold ==
    \A r \in RunIds :
        trace[r].path = "cpu" =>
            LET reported == trace[r].progress
            IN  /\ Len(reported) = trace[r].workerFolds
                /\ \A k \in DOMAIN reported :
                       NumEq(reported[k], Frac(k * 100, request[r].total))
                /\ \A k \in DOMAIN reported :
                       k > 1 => ~NumLeq(reported[k], reported[k - 1])
                /\ r \in DOMAIN activeTasks =>
                       Len(reported) = activeTasks[r].completedSimulations
                /\ promise[r].state = "resolved" =>
                       /\ Len(reported) = request[r].total
                       /\ BucketSum(promise[r].statistics.drawsBucket) = Len(reported)
                       /\ NumEq(reported[Len(reported)], Whole(100))

\* a run of two trials resolved after reporting 50 and 100
C17_Witness ==
    \E r \in RunIds :
        /\ trace[r].path = "cpu"
        /\ promise[r].state = "resolved"
        /\ trace[r].progress = << Frac(100, 2), Frac(200, 2) >>

(***************************************************************************)
(* C18: a run completing tears the worker pool down (all workers           *)
(* terminated, idle set emptied) only if no other run is still active at   *)
(* that moment, and the next worker-pool run recreates a full pool with    *)
(* every worker idle before it dispatches its first trial.                 *)
(***************************************************************************)
\* the workers that hold a task
Busy(ib) == { w \in Workers : ib[w] # << >> }

C18_PoolState ==
    /\ workers \in { {}, Workers }
    /\ workers = {} =>
          /\ availableWorkers = << >>
          /\ DOMAIN activeTasks = {}
          /\ Busy(inbox) = {}

C18_PoolStep ==
    /\ (workers # {} /\ workers' = {}) =>
          \E m \in replies :
              /\ m \notin replies'
              /\ m.type = "complete"
              /\ DOMAIN activeTasks = {m.taskId}
              /\ promise'[m.taskId].state = "resolved"
    /\ \A r \in RunIds :
          (workers = {} /\ r \in DOMAIN activeTasks') =>
              /\ workers' = Workers
              /\ IdleSet(availableWorkers') \cup Busy(inbox') = Workers
              /\ IdleSet(availableWorkers') \cap Busy(inbox') = {}
              /\ \A w \in Busy(inbox') :
                     Len(inbox'[w]) = 1 /\ inbox'[w][1].taskId = r
              /\ Cardinality(Busy(inbox')) =
                     Min2(WorkerCount, activeTasks'[r].totalSimulations)

C18_PoolLifecycle ==
    [](C18_PoolState) /\ [][C18_PoolStep]_vars

\* the first run resolved and released the pool; the second run, started on
\* the worker-pool path afterwards, has both its trials at the two workers
C18_Witness ==
    /\ promise[1].state = "resolved"
    /\ trace[1].path = "cpu"
    /\ 2 \in DOMAIN activeTasks
    /\ ~trace[2].fellBack
    /\ trace[2].workerFolds = 0
    /\ activeTasks[2].pendingSimulations = << >>
    /\ Busy(inbox) = Workers
    /\ \A w \in Workers : inbox[w][1].taskId = 2

(***************************************************************************)
(* C19: given the same sequence of reward events (absolute pity position   *)
(* of each hit and category of each reward), the batched path computes the *)
(* same trial total and per-category counts as chouShuTongJi: basePity     *)
(* affects only the first reward cycle of a trial, and the draws added for *)
(* a cycle are the draws consumed in it, not the absolute pity position.   *)
(***************************************************************************)
\* a lane that decodes: it has a non-negative pity difference and a category
ValidLane(lane) ==
    /\ \E i \in DOMAIN lane.drawsGroup : lane.drawsGroup[i] >= 0
    /\ \E j \in DOMAIN lane.operatorGroup : lane.operatorGroup[j] > 0

\* the reward event a decoding lane stands for: the hit at pity position
\* basePity + drawIdx, the category of the first positive difference
LaneEvent(lane) ==
    [pos |-> batch.basePity
             + Least({ i \in DOMAIN lane.drawsGroup : lane.drawsGroup[i] >= 0 }) - 1,
     name |-> batch.operatorConfig[
                  Least({ j \in DOMAIN lane.operatorGroup :
                            lane.operatorGroup[j] > 0 })].name]

\* the events of the last dispatch, in the order results.pop() takes them
RECURSIVE EventsOf(_)
EventsOf(lanes) ==
    IF lanes = << >> THEN << >>
    ELSE LET last == lanes[Len(lanes)]
             rest == EventsOf(SubSeq(lanes, 1, Len(lanes) - 1))
         IN  IF ValidLane(last) THEN << LaneEvent(last) >> \o rest ELSE rest

\* gatcha(b) can hit at pity position p, and what it returns when it does
GatchaHitsAt(b, p) == \E o \in GatchaOutcomes(b) : o.attempts = p - b + 1
GatchaReturnAt(b, p) == (CHOOSE o \in GatchaOutcomes(b) : o.attempts = p - b + 1).ret

\* chouShuTongJi's loop fed the events one per reward cycle
RECURSIVE RunnerTrial(_, _, _, _, _)
RunnerTrial(cfg, events, total, currentPity, statistic) ==
    IF CheckCompletion(cfg, statistic)
      THEN [done |-> TRUE, total |-> total, statistic |-> statistic]
    ELSE IF events = << >> \/ ~GatchaHitsAt(currentPity, Head(events).pos)
      THEN [done |-> FALSE, total |-> total, statistic |-> statistic]
    ELSE RunnerTrial(cfg, Tail(events),
                     total + GatchaReturnAt(currentPity, Head(events).pos), 0,
                     Increment(statistic, Head(events).name))

\* the first trial the batched path folds out of the decoded results
BatchedTrial ==
    DecodeResults(batch.results,
                  [currentSim |-> 0, drawsBucket |-> EmptyFn,
                   characterCounts |-> EmptyFn, rewardEvents |-> 0],
                  [batch EXCEPT !.totalSimulations = 1])

CountOf(counts, name) == IF name \in DOMAIN counts THEN counts[name] ELSE 0

C19_BatchedEqualsRunner ==
    batch.pc = "fold" =>
        LET cfg == batch.operatorConfig
            R == RunnerTrial(cfg, EventsOf(batch.lanes), 0, batch.basePity,
                             ConstFn(ConfigNames(cfg), 0))
            B == BatchedTrial
        IN  R.done =>
              /\ B.currentSim = 1
              /\ B.drawsBucket = PutKey(EmptyFn, R.total, 1)
              /\ \A name \in ConfigNames(cfg) :
                     CountOf(B.characterCounts, name) = R.statistic[name]

\* at basePity 0 and for hits below the rising-probability positions the two
\* paths agree
C19_AgreeFromZero ==
    (batch.pc = "fold" /\ batch.basePity = 0) =>
        LET cfg == batch.operatorConfig
            R == RunnerTrial(cfg, EventsOf(batch.lanes), 0, batch.basePity,
                             ConstFn(ConfigNames(cfg), 0))
            B == BatchedTrial
        IN  R.done =>
              /\ B.currentSim = 1
              /\ B.drawsBucket = PutKey(EmptyFn, R.total, 1)
              /\ \A name \in ConfigNames(cfg) :
                     CountOf(B.characterCounts, name) = R.statistic[name]

C19_AgreeFromZero_Witness ==
    /\ batch.pc = "fold" /\ batch.basePity = 0
    /\ RunnerTrial(batch.operatorConfig, EventsOf(batch.lanes), 0, 0,
                   ConstFn(ConfigNames(batch.operatorConfig), 0)).done
    /\ Len(batch.results) = 2

(***************************************************************************)
(* C20: a batched lane in which no pity difference is non-negative, or in  *)
(* which no category is selected, produces no outcome: it is omitted from  *)
(* the decoded results and changes neither drawsBucket nor the category    *)
(* counters, and the run's final trial count still equals the number of    *)
(* accepted trials and the requested count.                                *)
(***************************************************************************)
C20_LanesOmitted ==
    /\ batch.pc = "fold" =>
          /\ batch.results =
                DecodeLanes(SelectSeq(batch.lanes, ValidLane),
                            batch.operatorConfig, batch.basePity)
          /\ Len(batch.results) = Len(SelectSeq(batch.lanes, ValidLane))
    /\ batch.pc = "done" =>
          /\ BucketSum(batch.drawsBucket) = batch.currentSim
          /\ batch.currentSim = batch.totalSimulations

C20_FoldStep ==
    (batch.pc = "fold" /\ batch'.pc # "fold") =>
        LET accepted == DecodeLanes(SelectSeq(batch.lanes, ValidLane),
                                    batch.operatorConfig, batch.basePity)
            D == DecodeResults(accepted,
                               [currentSim |-> batch.currentSim,
                                drawsBucket |-> batch.drawsBucket,
                                characterCounts |-> batch.characterCounts,
                                rewardEvents |-> 0],
                               batch)
        IN  /\ batch'.drawsBucket = D.drawsBucket
            /\ batch'.characterCounts = D.characterCounts
            /\ batch'.currentSim = D.currentSim
            /\ accepted = << >> =>
                  /\ batch'.drawsBucket = batch.drawsBucket
                  /\ batch'.characterCounts = batch.characterCounts
                  /\ batch'.currentSim = batch.currentSim

C20_InvalidLaneDropped ==
    [](C20_LanesOmitted) /\ [][C20_FoldStep]_vars

\* the second dispatch of a run that has accepted a trial returned a lane
\* without a hit, or without a category, next to a lane that decoded
C20_Witness ==
    /\ batch.pc = "fold"
    /\ batch.batches = 2
    /\ batch.currentSim = 1
    /\ Len(batch.results) = 1
    /\ \E i \in DOMAIN batch.lanes :
          \/ \A k \in DOMAIN batch.lanes[i].drawsGroup : batch.lanes[i].drawsGroup[k] < 0
          \/ \A j \in DOMAIN batch.lanes[i].operatorGroup :
                 batch.lanes[i].operatorGroup[j] <= 0
    /\ \E i \in DOMAIN batch.lanes : ValidLane(batch.lanes[i])

(***************************************************************************)
(* C21: on the batched path, for every requested trial count and every     *)
(* configuration with a nonzero quota, the repeated-dispatch loop          *)
(* terminates after counting exactly the requested number of trials when   *)
(* every dispatch succeeds, whatever the number of reward events a trial   *)
(* needs relative to the number of results one batch returns. The loop     *)
(* carries nothing of a trial from one dispatch to the next but            *)
(* currentSim (operator and totalDraws are created anew for every trial),  *)
(* so it terminates for every sequence of non-empty dispatches only if     *)
(* every dispatch that returned results has counted a trial.               *)
(***************************************************************************)
HasQuota(cfg) == \E i \in DOMAIN cfg : cfg[i].target > 0

C21_DispatchCountsTrial ==
    [][ (batch.pc = "fold" /\ batch.results # << >> /\ HasQuota(batch.operatorConfig))
          => batch'.currentSim > batch.currentSim ]_vars

(***************************************************************************)
(* C22: weightedChoice walks the categories in configuration order,        *)
(* subtracting each weight from the random value r in [0, sum of weights), *)
(* and returns the first category at which the remainder is <= 0, falling  *)
(* back to the last, so it always returns a configured category; the       *)
(* batched decode, with the category CDF built in the same order and with  *)
(* the same normalization, selects the same category for the same fraction *)
(* r / (sum of weights).                                                   *)
(***************************************************************************)
\* the sum of the first i weights
WeightUpTo(cfg, i) == SumWeights(SubSeq(cfg, 1, i))

\* weightedChoice alone: the first category whose running weight reaches r
C22_WorkerChoice ==
    choice.pc \in {"worker", "done"} =>
        \E i \in DOMAIN choice.cfg :
            /\ choice.worker = choice.cfg[i].name
            /\ 2 * WeightUpTo(choice.cfg, i) >= choice.r2
            /\ \A j \in 1 .. (i - 1) : 2 * WeightUpTo(choice.cfg, j) < choice.r2

C22_SameCategory ==
    /\ C22_WorkerChoice
    /\ choice.pc = "done" => choice.batched = choice.worker

\* the two selections agree when no weight is 0 and the fraction is not the
\* upper end of a category's interval
C22_AgreeInside ==
    (/\ choice.pc = "done"
     /\ \A i \in DOMAIN choice.cfg : choice.cfg[i].weight > 0
     /\ \A i \in DOMAIN choice.cfg : 2 * WeightUpTo(choice.cfg, i) # choice.r2)
        => choice.batched = choice.worker

\* with positive weights they differ at the upper end of an interval
C22_BoundaryAgrees ==
    (/\ choice.pc = "done"
     /\ \A i \in DOMAIN choice.cfg : choice.cfg[i].weight > 0)
        => choice.batched = choice.worker

(***************************************************************************)
(* C23: for a configuration in which every quota is 0, one trial still     *)
(* executes its reward loop at least once (its totalDraws is >= 1 and one  *)
(* or more reward events are counted) and then terminates, on the          *)
(* worker-pool path as on the batched path.                                *)
(***************************************************************************)
AllQuotasZero(cfg) == cfg # << >> /\ \A i \in DOMAIN cfg : cfg[i].target = 0

C23_ZeroQuotaRunsOnce ==
    (trial.pc = "done" /\ AllQuotasZero(trial.cfg)) =>
        /\ trial.cycles >= 1
        /\ trial.total >= 1
        /\ CountsSum(trial.statistic) >= 1

\* the batched path: the results of any dispatch, folded for the dispatched
\* configuration with every quota set to 0, give one trial of one reward
ZeroQuotas(cfg) == [i \in DOMAIN cfg |-> [cfg[i] EXCEPT !.target = 0]]

C23_BatchedZeroQuota ==
    (batch.pc = "fold" /\ batch.results # << >>) =>
        LET B == DecodeResults(batch.results,
                               [currentSim |-> 0, drawsBucket |-> EmptyFn,
                                characterCounts |-> EmptyFn, rewardEvents |-> 0],
                               [batch EXCEPT !.totalSimulations = 1,
                                             !.operatorConfig = ZeroQuotas(@)])
        IN  /\ B.currentSim = 1
            /\ BucketSum(B.drawsBucket) = 1
            /\ \A draws \in DOMAIN B.drawsBucket : draws >= 1
            /\ CountsSum(B.characterCounts) = 1

(***************************************************************************)
(* C24: worker conservation. In every reachable state each worker of the   *)
(* pool is either in the idle set or has exactly one task outstanding;     *)
(* once the scheduler has handled a worker's reply (a success, an error,   *)
(* or a reply for a run that was already failed and removed) that worker   *)
(* is back in the idle set, so the number of usable workers never shrinks  *)
(* while the pool exists.                                                  *)
(***************************************************************************)
C24_WorkerConservation ==
    \A w \in workers :
        \/ w \in IdleSet(availableWorkers) /\ OutstandingAt(w) = 0
        \/ w \notin IdleSet(availableWorkers) /\ OutstandingAt(w) = 1

(***************************************************************************)
(* C25: for every active worker-pool run and in every reachable state,     *)
(* completedSimulations + the number of pending trial ids + the number of  *)
(* trials of the run outstanding at workers equals totalSimulations, and   *)
(* completedSimulations never exceeds totalSimulations; the run is         *)
(* completed exactly once, at the moment completedSimulations first equals *)
(* totalSimulations.                                                       *)
(***************************************************************************)
\* the trials of run r outstanding at workers: sent and not yet answered, or
\* answered with a reply the scheduler has not handled yet
TrialsOutstanding(r) ==
    Cardinality(TasksOf(inbox, r)) + Cardinality({ m \in replies : m.taskId = r })

C25_TrialsAccounted ==
    \A r \in DOMAIN activeTasks :
        /\ activeTasks[r].completedSimulations
             + Len(activeTasks[r].pendingSimulations)
             + TrialsOutstanding(r) = activeTasks[r].totalSimulations
        /\ activeTasks[r].completedSimulations < activeTasks[r].totalSimulations

C25_CompletionStep ==
    \A r \in RunIds :
        \* a completion that brings the count to the total completes the run
        /\ (/\ r \in DOMAIN activeTasks
            /\ \E m \in replies :
                  m \notin replies' /\ m.type = "complete" /\ m.taskId = r
            /\ activeTasks[r].completedSimulations + 1 = activeTasks[r].totalSimulations)
              => /\ r \notin DOMAIN activeTasks'
                 /\ promise'[r].state = "resolved"
                 /\ promise'[r].statistics.totalSimulations = activeTasks[r].totalSimulations
        \* a worker-pool run is resolved only by such a completion
        /\ (trace[r].path = "cpu" /\ promise[r].state # "resolved"
                                  /\ promise'[r].state = "resolved")
              => /\ r \in DOMAIN activeTasks
                 /\ promise[r].state = "pending"
                 /\ activeTasks[r].completedSimulations + 1 = activeTasks[r].totalSimulations
                 /\ \E m \in replies :
                       m \notin replies' /\ m.type = "complete" /\ m.taskId = r
        \* and never a second time
        /\ promise[r].state = "resolved"
              => promise'[r] = promise[r] /\ r \notin DOMAIN activeTasks'

C25_RunAccounting ==
    [](C25_TrialsAccounted) /\ [][C25_CompletionStep]_vars

\* a run of two trials with one folded, none pending and the last one answered
\* but not yet handled
C25_Witness ==
    \E r \in DOMAIN activeTasks :
        /\ activeTasks[r].totalSimulations = 2
        /\ activeTasks[r].completedSimulations = 1
        /\ activeTasks[r].pendingSimulations = << >>
        /\ \E m \in replies : m.taskId = r /\ m.type = "complete"

(***************************************************************************)
(* C26: run isolation. Handling a worker reply changes the bucket, the     *)
(* category counters, the completed count and the pending list of only the *)
(* run whose taskId the reply carries; a reply whose taskId matches no     *)
(* active run leaves the state of every active run unchanged.              *)
(***************************************************************************)
C26_RunIsolation ==
    [][ \A m \in replies :
          m \notin replies' =>
              /\ \A r \in DOMAIN activeTasks :
                    r # m.taskId =>
                        /\ r \in DOMAIN activeTasks'
                        /\ activeTasks'[r] = activeTasks[r]
                        /\ promise'[r] = promise[r]
              /\ DOMAIN activeTasks' \subseteq DOMAIN activeTasks
              /\ m.taskId \notin DOMAIN activeTasks =>
                    /\ activeTasks' = activeTasks
                    /\ promise' = promise ]_vars

\* both trials of the first run were dispatched, the run was rejected and
\* its late reply has been handled too, while the second run is active
C26_Witness ==
    /\ promise[1].state = "rejected"
    /\ request[1].total = 2
    /\ trace[1].dropped = 0
    /\ ~Outstanding(1)
    /\ 2 \in DOMAIN activeTasks

(***************************************************************************)
(* C27: for every non-empty bucket, the p25, median and p75 returned by    *)
(* calculateStatisticalData are each a draw value present in the bucket    *)
(* and p25 <= median <= p75, also when the draw value found for p25 is     *)
(* numerically equal to the mean.                                          *)
(***************************************************************************)
InBucket(x, bucket) == \E d \in DOMAIN bucket : NumEq(x, Whole(d))

C27_QuartilesOrdered ==
    statCall.pc = "done" =>
        LET sd == statCall.statisticalData
        IN  /\ InBucket(sd.p25, statCall.drawsBucket)
            /\ InBucket(sd.median, statCall.drawsBucket)
            /\ InBucket(sd.p75, statCall.drawsBucket)
            /\ NumLeq(sd.p25, sd.median)
            /\ NumLeq(sd.median, sd.p75)

\* the three values are always draw values of the bucket
C27_ValuesInBucket ==
    statCall.pc = "done" =>
        LET sd == statCall.statisticalData
        IN  /\ InBucket(sd.p25, statCall.drawsBucket)
            /\ InBucket(sd.median, statCall.drawsBucket)
            /\ InBucket(sd.p75, statCall.drawsBucket)

\* the order holds whenever no draw value of the bucket equals the mean of a
\* bucket with more than one draw value
C27_OrderedAwayFromMean ==
    (/\ statCall.pc = "done"
     /\ \A d \in DOMAIN statCall.drawsBucket :
           ~NumEq(Whole(d), statCall.statisticalData.mean))
        => /\ NumLeq(statCall.statisticalData.p25, statCall.statisticalData.median)
           /\ NumLeq(statCall.statisticalData.median, statCall.statisticalData.p75)

(***************************************************************************)
(* C28: in every reachable state of the worker manager, after any          *)
(* interleaving of the asynchronous GPU initialization and setGPUEnabled   *)
(* calls, the batched backend is enabled only if it is available, and      *)
(* getGPUAvailability reports exactly the two flags.                       *)
(***************************************************************************)
C28_EnabledImpliesAvailable ==
    /\ isGPUEnabled => isGPUAvailable
    /\ GetGPUAvailability.available = isGPUAvailable
    /\ GetGPUAvailability.enabled = isGPUEnabled
    /\ DOMAIN GetGPUAvailability = {"available", "enabled"}

\* the initialization succeeded and the caller switched the backend off
C28_Witness ==
    /\ gpuInitPc = "done"
    /\ isGPUAvailable
    /\ ~isGPUEnabled
    /\ GetGPUAvailability = [available |-> TRUE, enabled |-> FALSE]

(***************************************************************************)
(* C29: once the caller has called setGPUEnabled(false), the backend stays *)
(* disabled until the caller calls setGPUEnabled(true): the asynchronous   *)
(* GPU initialization completing afterwards does not re-enable it, so no   *)
(* later run is routed to the batched path against the caller's setting.   *)
(***************************************************************************)
\* the test of runSimulation, line 605
RoutedToGPU == isGPUEnabled /\ gpuInitialized

C29_DisabledStaysDisabled ==
    listeners.setting = "off" => (~isGPUEnabled /\ ~RoutedToGPU)

\* while the latest call is setGPUEnabled(false), the only step that enables
\* the backend is the completion of the initialization
C29_OnlyInitReenables ==
    [][ (/\ listeners.setting = "off"
         /\ listeners'.setting = "off"
         /\ ~isGPUEnabled
         /\ isGPUEnabled')
            => (gpuInitPc = "init" /\ gpuInitPc' = "done" /\ isGPUAvailable') ]_vars

(***************************************************************************)
(* C30: onGPUStatusChange calls the callback once at once with the current *)
(* {available, enabled}; every later setGPUEnabled call and every          *)
(* successful GPU initialization notifies each currently subscribed        *)
(* callback with the new state; after the returned unsubscribe function    *)
(* was called the callback is never called again while the other           *)
(* subscribers keep being notified, and a second unsubscribe call removes  *)
(* nothing else.                                                           *)
(***************************************************************************)
Subscribed(L) == { L.gpuStatusCallbacks[i] : i \in DOMAIN L.gpuStatusCallbacks }

C30_ListenerStep ==
    LET L == listeners
        M == listeners'
        before == [available |-> isGPUAvailable, enabled |-> isGPUEnabled]
        after == [available |-> isGPUAvailable', enabled |-> isGPUEnabled']
        Notified ==
            \A c \in Callbacks :
                M.received[c] = IF c \in Subscribed(L)
                                  THEN Append(L.received[c], after)
                                  ELSE L.received[c]
    IN  /\ M.issued # L.issued =>
              /\ M.issued = L.issued + 1
              /\ M.gpuStatusCallbacks = Append(L.gpuStatusCallbacks, M.issued)
              /\ M.received[M.issued] = << before >>
              /\ after = before
              /\ \A c \in Callbacks \ {M.issued} : M.received[c] = L.received[c]
        /\ M.sets # L.sets => Notified
        /\ (gpuInitPc = "init" /\ gpuInitPc' = "done" /\ isGPUAvailable') => Notified
        /\ \A c \in Callbacks :
              /\ L.unsubscribeCalls[c] > 0 =>
                    /\ M.received[c] = L.received[c]
                    /\ c \notin Subscribed(M)
              /\ M.unsubscribeCalls[c] # L.unsubscribeCalls[c] =>
                    /\ Subscribed(M) = Subscribed(L) \ {c}
                    /\ M.received = L.received
                    /\ L.unsubscribeCalls[c] > 0 =>
                          M.gpuStatusCallbacks = L.gpuStatusCallbacks

C30_StatusListeners == [][C30_ListenerStep]_vars

\* the first callback was unsubscribed twice; the second was notified of a
\* successful initialization and of a later setGPUEnabled call that the
\* first did not receive
C30_Witness ==
    /\ listeners.unsubscribeCalls[1] = 2
    /\ listeners.gpuStatusCallbacks = << 2 >>
    /\ gpuInitPc = "done" /\ isGPUAvailable
    /\ Len(listeners.received[1]) >= 2
    /\ Len(listeners.received[2]) >= 3
    /\ \E i \in DOMAIN listeners.received[2] :
          /\ i > 1
          /\ listeners.received[2][i] = [available |-> TRUE, enabled |-> TRUE]
    /\ listeners.received[2][Len(listeners.received[2])]
          = [available |-> TRUE, enabled |-> FALSE]
    /\ listeners.received[1][Len(listeners.received[1])].available = FALSE

(***************************************************************************)
(* C9: a run requested with an empty category set, or with every quota 0,  *)
(* is rejected as an invalid configuration before any trial is dispatched  *)
(* to a worker or to the batched backend; no statistics are returned.      *)
(***************************************************************************)
InvalidConfiguration(cfg) ==
    cfg = << >> \/ \A i \in DOMAIN cfg : cfg[i].target = 0

C9_InvalidConfigRejected ==
    \A r \in RunIds :
        (promise[r].state # "none" /\ InvalidConfiguration(request[r].config)) =>
            /\ promise[r].state = "rejected"
            /\ ~trace[r].dispatched

(***************************************************************************)
(* C10: when a run resolves, on either path, the sum of the per-category   *)
(* counters equals the number of reward events of exactly the trials       *)
(* counted in drawsBucket.                                                 *)
(***************************************************************************)
C10_CountersAreRewardEvents ==
    \A r \in RunIds :
        promise[r].state = "resolved" =>
            CountsSum(promise[r].statistics.characterCounts) = trace[r].rewardEvents

=============================================================================
